---- MODULE Spec2Model ----
(***************************************************************************)
(* Configuration core of the Appium server: the schema registry            *)
(* (lib/schema), config-file loading, validation and normalization         *)
(* (lib/config-file), the driver manifest check (lib/driver-config), and   *)
(* the projection of schema properties to CLI arguments (lib/cli).         *)
(*                                                                         *)
(* JavaScript values are encoded as records [k |-> kind, v |-> payload].   *)
(* An object is an insertion-ordered sequence of [key, val] pairs, as a    *)
(* JavaScript object enumerates its own keys.  Numbers are integers.       *)
(***************************************************************************)
EXTENDS Integers, Sequences, FiniteSets, TLC

(* ---------------------------- JavaScript values ------------------------ *)

Undefined == [k |-> "undefined", v |-> <<>>]
Null == [k |-> "null", v |-> <<>>]
Str(s) == [k |-> "string", v |-> s]
Num(n) == [k |-> "number", v |-> n]
Bool(b) == [k |-> "boolean", v |-> b]
Arr(items) == [k |-> "array", v |-> items]
Obj(props) == [k |-> "object", v |-> props]
P(key, val) == [key |-> key, val |-> val]

\* _.isObject: arrays and plain objects (functions are not modelled)
isObject(x) == x.k \in {"object", "array"}
isString(x) == x.k = "string"
isArray(x) == x.k = "array"
isUndefined(x) == x.k = "undefined"
\* the operand test of ??
Nullish(x) == x.k \in {"undefined", "null"}
\* ToBoolean
Truthy(x) ==
    CASE x.k \in {"undefined", "null"} -> FALSE
      [] x.k = "string" -> x.v # ""
      [] x.k = "number" -> x.v # 0
      [] x.k = "boolean" -> x.v
      [] OTHER -> TRUE

\* own enumerable keys, in enumeration order (array indices for an array)
Keys(x) ==
    CASE x.k = "object" -> [i \in DOMAIN x.v |-> x.v[i].key]
      [] x.k = "array" -> [i \in DOMAIN x.v |-> ToString(i - 1)]
      [] OTHER -> <<>>

\* the values paired with Keys(x)
Vals(x) ==
    CASE x.k = "object" -> [i \in DOMAIN x.v |-> x.v[i].val]
      [] x.k = "array" -> x.v
      [] OTHER -> <<>>

Has(x, key) == x.k = "object" /\ \E i \in DOMAIN x.v : x.v[i].key = key

\* property read x[key] of an object: undefined when it has no such key
Get(x, key) ==
    IF x.k = "object" /\ \E i \in DOMAIN x.v : x.v[i].key = key
    THEN x.v[CHOOSE i \in DOMAIN x.v : x.v[i].key = key].val
    ELSE Undefined

\* result[key] = val: replaces the value in place, or appends a new key
Put(props, key, val) ==
    IF \E i \in DOMAIN props : props[i].key = key
    THEN [i \in DOMAIN props |-> IF props[i].key = key THEN P(key, val) ELSE props[i]]
    ELSE Append(props, P(key, val))

(* --------------------------- the core schema --------------------------- *)

appiumConfigSchema ==
    Obj(<<
      P("$schema", Str("http://json-schema.org/draft-07/schema")),
      P("$id", Str("https://appium.io/appium.json")),
      P("type", Str("object")),
      P("title", Str("Appium Configuration")),
      P("description", Str("A schema for Appium configuration files")),
      P("properties", Obj(<<
        P("log-filters", Obj(<<
          P("$id", Str("#/properties/log-filters")),
          P("type", Str("array")),
          P("title", Str("log-filters config")),
          P("description", Str("One or more log filtering rules")),
          P("items", Obj(<<
            P("type", Str("string"))>>)),
          P("$comment", Str("TODO"))>>)),
        P("server", Obj(<<
          P("$id", Str("#/properties/server")),
          P("type", Str("object")),
          P("title", Str("server config")),
          P("description", Str("Configuration when running Appium as a server")),
          P("properties", Obj(<<
            P("drivers", Obj(<<
              P("$id", Str("#/properties/server/properties/drivers")),
              P("type", Arr(<<Str("string"), Str("array")>>)),
              P("title", Str("drivers config")),
              P("description", Str("A list of drivers to activate. By default, all installed drivers will be activated.  If a string, must be valid JSON")),
              P("items", Obj(<<
                P("type", Str("string"))>>)),
              P("default", Str(""))>>)),
            P("plugins", Obj(<<
              P("$id", Str("#/properties/server/properties/plugins")),
              P("title", Str("plugins config")),
              P("type", Arr(<<Str("string"), Str("array")>>)),
              P("description", Str("A list of plugins to activate. To activate all plugins, use the single string \"all\". If a string, can otherwise be valid JSON.")),
              P("items", Obj(<<
                P("type", Str("string"))>>)),
              P("default", Str(""))>>)),
            P("allow-cors", Obj(<<
              P("$id", Str("#/properties/server/properties/allow-cors")),
              P("type", Str("boolean")),
              P("title", Str("allow-cors config")),
              P("description", Str("Whether the Appium server should allow web browser connections from any host")),
              P("default", Bool(FALSE))>>)),
            P("address", Obj(<<
              P("$id", Str("#/properties/server/properties/address")),
              P("title", Str("address config")),
              P("description", Str("IP address to listen on")),
              P("default", Str("0.0.0.0")),
              P("type", Str("string")),
              P("format", Str("hostname")),
              P("$comment", Str("I think hostname covers both DNS and IPv4...could be wrong")),
              P("appiumAliases", Arr(<<Str("a")>>))>>)),
            P("port", Obj(<<
              P("$id", Str("#/properties/server/properties/port")),
              P("type", Str("integer")),
              P("title", Str("port config")),
              P("description", Str("Port to listen on")),
              P("default", Num(4723)),
              P("minimum", Num(1)),
              P("maximum", Num(65535)),
              P("appiumAliases", Arr(<<Str("p")>>))>>)),
            P("base-path", Obj(<<
              P("$id", Str("#/properties/server/properties/base-path")),
              P("type", Str("string")),
              P("title", Str("base-path config")),
              P("description", Str("Base path to use as the prefix for all webdriver routes running on the server")),
              P("default", Str("")),
              P("appiumAliases", Arr(<<Str("pa")>>))>>)),
            P("keep-alive-timeout", Obj(<<
              P("$id", Str("#/properties/server/properties/keep-alive-timeout")),
              P("type", Str("integer")),
              P("title", Str("keep-alive-timeout config")),
              P("description", Str("Number of seconds the Appium server should apply as both the keep-alive timeout and the connection timeout for all requests. A value of 0 disables the timeout.")),
              P("default", Num(600)),
              P("minimum", Num(0)),
              P("appiumAliases", Arr(<<Str("ka")>>))>>)),
            P("callback-address", Obj(<<
              P("$id", Str("#/properties/server/properties/callback-address")),
              P("type", Str("string")),
              P("title", Str("callback-address config")),
              P("description", Str("Callback IP address (default: same as \"address\")")),
              P("appiumAliases", Arr(<<Str("ca")>>))>>)),
            P("callback-port", Obj(<<
              P("$id", Str("#/properties/server/properties/callback-port")),
              P("type", Str("integer")),
              P("title", Str("callback-port config")),
              P("description", Str("Callback port (default: same as \"port\")")),
              P("minimum", Num(1)),
              P("maximum", Num(65535)),
              P("default", Num(4723)),
              P("appiumAliases", Arr(<<Str("cp")>>))>>)),
            P("session-override", Obj(<<
              P("$id", Str("#/properties/server/properties/session-override")),
              P("type", Str("boolean")),
              P("title", Str("session-override config")),
              P("description", Str("Enables session override (clobbering)")),
              P("default", Bool(FALSE))>>)),
            P("log", Obj(<<
              P("$id", Str("#/properties/server/properties/log")),
              P("type", Str("string")),
              P("title", Str("log config")),
              P("description", Str("Also send log output to this file")),
              P("appiumAliases", Arr(<<Str("g")>>)),
              P("appiumDest", Str("logFile"))>>)),
            P("log-level", Obj(<<
              P("$id", Str("#/properties/server/properties/log-level")),
              P("enum", Arr(<<
                Str("info"),
                Str("info:debug"),
                Str("info:info"),
                Str("info:warn"),
                Str("info:error"),
                Str("warn"),
                Str("warn:debug"),
                Str("warn:info"),
                Str("warn:warn"),
                Str("warn:error"),
                Str("error"),
                Str("error:debug"),
                Str("error:info"),
                Str("error:warn"),
                Str("error:error"),
                Str("debug"),
                Str("debug:debug"),
                Str("debug:info"),
                Str("debug:warn"),
                Str("debug:error")>>)),
              P("type", Str("string")),
              P("title", Str("log-level config")),
              P("description", Str("Log level (console[:file])")),
              P("default", Str("debug")),
              P("appiumDest", Str("loglevel"))>>)),
            P("log-timestamp", Obj(<<
              P("$id", Str("#/properties/server/properties/log-timestamp")),
              P("type", Str("boolean")),
              P("title", Str("log-timestamp config")),
              P("description", Str("Show timestamps in console output")),
              P("default", Bool(FALSE))>>)),
            P("local-timezone", Obj(<<
              P("$id", Str("#/properties/server/properties/local-timezone")),
              P("type", Str("boolean")),
              P("title", Str("local-timezone config")),
              P("description", Str("Use local timezone for timestamps")),
              P("default", Bool(FALSE))>>)),
            P("log-no-colors", Obj(<<
              P("$id", Str("#/properties/server/properties/log-no-colors")),
              P("type", Str("boolean")),
              P("title", Str("log-no-colors config")),
              P("description", Str("Do not use color in console output")),
              P("default", Bool(FALSE))>>)),
            P("webhook", Obj(<<
              P("$id", Str("#/properties/server/properties/webhook")),
              P("type", Str("string")),
              P("format", Str("uri")),
              P("title", Str("webhook config")),
              P("description", Str("Also send log output to this http listener")),
              P("$comment", Str("This should probably use a uri-template format to restrict the protocol to http/https")),
              P("appiumAliases", Arr(<<Str("G")>>))>>)),
            P("nodeconfig", Obj(<<
              P("$id", Str("#/properties/server/properties/nodeconfig")),
              P("type", Arr(<<Str("object"), Str("string")>>)),
              P("title", Str("nodeconfig config")),
              P("description", Str("Path to configuration JSON file to register Appium as a node with Selenium Grid 3; otherwise the configuration itself")),
              P("$comment", Str("Selenium Grid 3 is unmaintained and Selenium Grid 4 no longer supports this file.")),
              P("default", Str(""))>>)),
            P("no-perms-check", Obj(<<
              P("$id", Str("#/properties/server/properties/no-perms-check")),
              P("type", Str("boolean")),
              P("title", Str("no-perms-check config")),
              P("description", Str("Do not check that needed files are readable and/or writable")),
              P("default", Bool(FALSE))>>)),
            P("strict-caps", Obj(<<
              P("$id", Str("#/properties/server/properties/strict-caps")),
              P("type", Str("boolean")),
              P("title", Str("strict-caps config")),
              P("description", Str("Cause sessions to fail if desired caps are sent in that Appium does not recognize as valid for the selected device")),
              P("default", Bool(FALSE))>>)),
            P("tmp", Obj(<<
              P("$id", Str("#/properties/server/properties/tmp")),
              P("type", Str("string")),
              P("title", Str("tmp config")),
              P("description", Str("Absolute path to directory Appium can use to manage temp files. Defaults to C:\\Windows\\Temp on Windows and /tmp otherwise."))>>)),
            P("trace-dir", Obj(<<
              P("$id", Str("#/properties/server/properties/trace-dir")),
              P("type", Str("string")),
              P("title", Str("trace-dir config")),
              P("description", Str("Absolute path to directory Appium can use to save iOS instrument traces; defaults to <tmp>/appium-instruments"))>>)),
            P("debug-log-spacing", Obj(<<
              P("$id", Str("#/properties/server/properties/debug-log-spacing")),
              P("type", Str("boolean")),
              P("title", Str("debug-log-spacing config")),
              P("description", Str("Add exaggerated spacing in logs to help with visual inspection")),
              P("default", Bool(FALSE))>>)),
            P("long-stacktrace", Obj(<<
              P("$id", Str("#/properties/server/properties/long-stacktrace")),
              P("type", Str("boolean")),
              P("title", Str("long-stacktrace config")),
              P("description", Str("Add long stack traces to log entries. Recommended for debugging only.")),
              P("default", Bool(FALSE))>>)),
            P("default-capabilities", Obj(<<
              P("$id", Str("#/properties/server/properties/default-capabilities")),
              P("type", Arr(<<Str("object"), Str("string")>>)),
              P("title", Str("default-capabilities config")),
              P("description", Str("Set the default desired capabilities, which will be set on each session unless overridden by received capabilities. If a string, a path to a JSON file containing the capabilities, or raw JSON.")),
              P("$comment", Str("TODO")),
              P("appiumAliases", Arr(<<Str("dc")>>))>>)),
            P("relaxed-security", Obj(<<
              P("$id", Str("#/properties/server/properties/relaxed-security")),
              P("type", Str("boolean")),
              P("title", Str("relaxed-security config")),
              P("description", Str("Disable additional security checks, so it is possible to use some advanced features, provided by drivers supporting this option. Only enable it if all the clients are in the trusted network and it's not the case if a client could potentially break out of the session sandbox. Specific features can be overridden by using \"deny-insecure\"")),
              P("default", Bool(FALSE))>>)),
            P("allow-insecure", Obj(<<
              P("$id", Str("#/properties/server/properties/allow-insecure")),
              P("type", Arr(<<Str("array"), Str("string")>>)),
              P("title", Str("allow-insecure config")),
              P("description", Str("Set which insecure features are allowed to run in this server's sessions. Features are defined on a driver level; see documentation for more details. Note that features defined via \"deny-insecure\" will be disabled, even if also listed here. If string, a path to a text file containing policy or a comma-delimited list.")),
              P("items", Obj(<<
                P("type", Str("string"))>>)),
              P("uniqueItems", Bool(TRUE)),
              P("default", Arr(<<>>))>>)),
            P("deny-insecure", Obj(<<
              P("$id", Str("#/properties/server/properties/deny-insecure")),
              P("type", Arr(<<Str("array"), Str("string")>>)),
              P("title", Str("deny-insecure config")),
              P("description", Str("Set which insecure features are not allowed to run in this server's sessions. Features are defined on a driver level; see documentation for more details. Features listed here will not be enabled even if also listed in \"allow-insecure\", and even if \"relaxed-security\" is enabled. If string, a path to a text file containing policy or a comma-delimited list.")),
              P("items", Obj(<<
                P("type", Str("string"))>>)),
              P("uniqueItems", Bool(TRUE)),
              P("$comment", Str("Allowed values are defined by drivers")),
              P("default", Arr(<<>>))>>))>>)),
          P("additionalProperties", Bool(FALSE))>>)),
        P("driver", Obj(<<
          P("$id", Str("#/properties/driver")),
          P("type", Str("object")),
          P("title", Str("driver config")),
          P("description", Str("Driver-specific configuration. Keys should correspond to driver package names"))>>)),
        P("plugin", Obj(<<
          P("$id", Str("#/properties/plugin")),
          P("type", Str("object")),
          P("title", Str("plugin config")),
          P("description", Str("Plugin-specific configuration. Keys should correspond to plugin package names"))>>))>>)),
      P("additionalProperties", Bool(FALSE))>>)

(* ------------------------------ schema module -------------------------- *)

\* the types the draft-07 meta-schema allows in type
SimpleTypes == {"array", "boolean", "integer", "null", "number", "object", "string"}

\* a keyword that is absent, or satisfies kindOk
OptionalKeyword(s, keyword, kinds) ==
    isUndefined(Get(s, keyword)) \/ Get(s, keyword).k \in kinds

\* ajv.validateSchema: the schema document against the draft-07 meta-schema.
\* Unknown keywords (appiumAliases, appiumDest) are not looked at (strict: false).
RECURSIVE MetaValid(_)
MetaValid(s) ==
    \/ s.k = "boolean"
    \/ /\ s.k = "object"
       /\ LET t == Get(s, "type")
          IN \/ isUndefined(t)
             \/ isString(t) /\ t.v \in SimpleTypes
             \/ /\ isArray(t)
                /\ Len(t.v) >= 1
                /\ \A i \in DOMAIN t.v : isString(t.v[i]) /\ t.v[i].v \in SimpleTypes
                /\ \A i, j \in DOMAIN t.v : t.v[i] = t.v[j] => i = j
       /\ \A keyword \in {"$id", "$schema", "$comment", "title", "description", "format"} :
            OptionalKeyword(s, keyword, {"string"})
       /\ OptionalKeyword(s, "minimum", {"number"})
       /\ OptionalKeyword(s, "maximum", {"number"})
       /\ OptionalKeyword(s, "uniqueItems", {"boolean"})
       /\ OptionalKeyword(s, "enum", {"array"})
       /\ OptionalKeyword(s, "properties", {"object"})
       /\ \A i \in DOMAIN Vals(Get(s, "properties")) : MetaValid(Vals(Get(s, "properties"))[i])
       /\ isUndefined(Get(s, "items")) \/ MetaValid(Get(s, "items"))
       /\ isUndefined(Get(s, "additionalProperties")) \/ MetaValid(Get(s, "additionalProperties"))

\* a schema contributed by a driver package; it carries no $id of its own
fakeDriverSchema ==
    Obj(<<
      P("type", Str("object")),
      P("title", Str("fake driver config")),
      P("properties", Obj(<<
        P("silly-web-server-port", Obj(<<
          P("type", Str("integer")),
          P("minimum", Num(1)),
          P("maximum", Num(65535)),
          P("description", Str("The port to use for the fake web server")),
          P("appiumAliases", Arr(<<Str("sp")>>))>>)),
        P("sillyWebServerHost", Obj(<<
          P("type", Str("string")),
          P("default", Str("sillyhost")),
          P("appiumDest", Str("sillyHost"))>>))>>)),
      P("additionalProperties", Bool(FALSE))>>)

\* a schema contributed by a plugin package, with a $id of its own
fakePluginSchema ==
    Obj(<<
      P("$id", Str("https://example.test/fake-plugin.json")),
      P("type", Str("object")),
      P("properties", Obj(<<
        P("answer", Obj(<<
          P("type", Arr(<<Str("string"), Str("array")>>)),
          P("default", Str("42"))>>))>>))>>)

\* a document the meta-schema rejects: type names no JSON type
badTypeSchema ==
    Obj(<<
      P("$id", Str("https://example.test/bad-type.json")),
      P("type", Str("nonsense"))>>)

\* a schema a second plugin contributes: it declares port, as the core schema does,
\* a list and an object with declared defaults, and properties of single types
\* without one
otherPluginSchema ==
    Obj(<<
      P("type", Str("object")),
      P("properties", Obj(<<
        P("port", Obj(<<
          P("type", Str("integer")),
          P("description", Str("The port of the image service")),
          P("appiumAliases", Arr(<<Str("p"), Str("image-port")>>))>>)),
        P("hosts", Obj(<<
          P("type", Str("array")),
          P("items", Obj(<<P("type", Str("string"))>>)),
          P("default", Arr(<<Str("localhost"), Str("fallback")>>))>>)),
        P("caps", Obj(<<
          P("type", Str("object")),
          P("default", Obj(<<P("scale", Num(1))>>))>>)),
        P("verbose", Obj(<<
          P("type", Str("boolean"))>>)),
        P("tags", Obj(<<
          P("type", Str("array")),
          P("items", Obj(<<P("type", Str("string"))>>))>>)),
        P("extra", Obj(<<
          P("type", Str("object"))>>)),
        P("mode", Obj(<<
          P("type", Arr(<<Str("string"), Str("array")>>))>>))>>))>>)

\* Objects are passed and stored by reference: a handle names a module-level value.
SchemaHandles ==
    {"appiumConfigSchema", "fakeDriverSchema", "fakePluginSchema", "badTypeSchema",
     "notAnObject"}

Deref(h) ==
    CASE h = "appiumConfigSchema" -> appiumConfigSchema
      [] h = "fakeDriverSchema" -> fakeDriverSchema
      [] h = "fakePluginSchema" -> fakePluginSchema
      [] h = "badTypeSchema" -> badTypeSchema
      [] h = "otherPluginSchema" -> otherPluginSchema
      [] OTHER -> Str("{\"type\": \"object\"}")

Returned(value) == [outcome |-> "return", value |-> value]
Thrown(name, message) ==
    [outcome |-> "throw", value |-> [name |-> name, code |-> "", message |-> message]]

InvalidSchemaMessage ==
    "Invalid schema; must be an object having a property $id, or the non-empty string id parameter must be provided"

\* ajv.getSchema(id)?.schema: the document added under the key, if any
getSchema(tbl, id) == IF id \in DOMAIN tbl THEN Deref(tbl[id]) ELSE Undefined

\* a step that threw keeps its throw; one that returned returns value instead
ReturnInstead(done, value) ==
    IF done.result.outcome = "throw" THEN done
    ELSE [tbl |-> done.tbl, result |-> Returned(value)]

AlreadyExists(key) == Thrown("Error", <<"schema with key or id \"", key, "\" already exists">>)

\* the table with key, and the document's own $id when it has one, referring to rawSchema
WithSchema(tbl, rawSchema, ownId, key) ==
    [k \in DOMAIN tbl \cup {key} \cup (IF isString(ownId) THEN {ownId.v} ELSE {}) |->
        IF k \in DOMAIN tbl THEN tbl[k] ELSE rawSchema]

\* ajv.addSchema(schema, key), where schema is the value rawSchema refers to: it
\* throws for a key in use, for a $id another document holds, and (the default
\* validateSchema option) for a document the meta-schema rejects; a document the
\* instance holds already is not validated again
addSchemaOf(tbl, rawSchema, schema, key) ==
    IF key \in DOMAIN tbl
    THEN [tbl |-> tbl, result |-> AlreadyExists(key)]
    ELSE IF \E k \in DOMAIN tbl : tbl[k] = rawSchema
    THEN [tbl |-> WithSchema(tbl, rawSchema, Undefined, key), result |-> Returned(Undefined)]
    ELSE IF isString(Get(schema, "$id")) /\ Get(schema, "$id").v \in DOMAIN tbl
    THEN [tbl |-> tbl, result |-> AlreadyExists(Get(schema, "$id").v)]
    ELSE IF ~MetaValid(schema)
    THEN [tbl |-> tbl, result |-> Thrown("Error", <<"schema is invalid">>)]
    ELSE [tbl |-> WithSchema(tbl, rawSchema, Get(schema, "$id"), key),
          result |-> Returned(Undefined)]

addSchema(tbl, rawSchema, key) == addSchemaOf(tbl, rawSchema, Deref(rawSchema), key)

\* the revision of registerSchema without the lookup: addSchema is always called,
\* under key `id || schema.$id`, and `id ?? schema.$id` is returned
registerSchemaAlwaysAdding(tbl, rawSchema, schema, id) ==
    IF isObject(schema) /\ (Truthy(Get(schema, "$id")) \/ Truthy(id))
    THEN ReturnInstead(addSchema(tbl, rawSchema, IF Truthy(id) THEN id.v ELSE Get(schema, "$id").v),
                       IF Nullish(id) THEN Get(schema, "$id") ELSE id)
    ELSE [tbl |-> tbl, result |-> Thrown("Error", <<InvalidSchemaMessage>>)]

\* registerSchemaUnder without the test of id: the schema is added under String(id)
registerSchemaUnderAnyId(tbl, rawSchema, id) ==
    IF ~Truthy(getSchema(tbl, IF isString(id) THEN id.v ELSE id.k))
    THEN ReturnInstead(addSchema(tbl, rawSchema, IF isString(id) THEN id.v ELSE id.k), id)
    ELSE [tbl |-> tbl, result |-> Returned(id)]

\* registerSchemaUnder replacing the document an id in use refers to
registerSchemaUnderReplacing(tbl, rawSchema, id) ==
    IF Truthy(id)
    THEN IF MetaValid(Deref(rawSchema))
         THEN [tbl |-> [k \in DOMAIN tbl \cup {id.v} |-> IF k = id.v THEN rawSchema ELSE tbl[k]],
               result |-> Returned(id)]
         ELSE [tbl |-> tbl, result |-> Thrown("Error", <<"schema is invalid">>)]
    ELSE [tbl |-> tbl, result |-> Thrown("Error", <<InvalidSchemaMessage>>)]

\* registerSchema once id = id ?? rawSchema.$id is evaluated, for an object rawSchema
registerSchemaUnder(tbl, rawSchema, id) ==
    IF Truthy(id)
    THEN IF ~Truthy(getSchema(tbl, id.v))
         THEN ReturnInstead(addSchema(tbl, rawSchema, id.v), id)
         ELSE [tbl |-> tbl, result |-> Returned(id)]
    ELSE [tbl |-> tbl, result |-> Thrown("Error", <<InvalidSchemaMessage>>)]

\* registerSchema(rawSchema, id), where schema is the value rawSchema refers to
registerSchemaOf(tbl, rawSchema, schema, id) ==
    IF isObject(schema)
    THEN registerSchemaUnder(tbl, rawSchema, IF Nullish(id) THEN Get(schema, "$id") ELSE id)
    ELSE [tbl |-> tbl, result |-> Thrown("Error", <<InvalidSchemaMessage>>)]

\* registerSchema(rawSchema, id): the table afterwards and the call's result
registerSchema(tbl, rawSchema, id) == registerSchemaOf(tbl, rawSchema, Deref(rawSchema), id)

\* the id the module's own registration of the core schema returns
APPIUM_CONFIG_SCHEMA_ID == "https://appium.io/appium.json"

(* ------------------------------- validation ---------------------------- *)

\* the options the module constructs its Ajv instance with
ajvOptionsFailFast == [allErrors |-> FALSE, allowUnionTypes |-> TRUE, strict |-> FALSE]

ajvOptions == [allErrors |-> TRUE, allowUnionTypes |-> TRUE, strict |-> FALSE]

RECURSIVE Join(_, _)
Join(strs, sep) ==
    IF Len(strs) = 0 THEN ""
    ELSE IF Len(strs) = 1 THEN strs[1]
    ELSE strs[1] \o sep \o Join(Tail(strs), sep)

RECURSIVE Flatten(_)
Flatten(seqs) == IF Len(seqs) = 0 THEN <<>> ELSE Head(seqs) \o Flatten(Tail(seqs))

\* the type names a schema node declares: one, several (a union), or none
TypesOf(schema) ==
    LET t == Get(schema, "type")
    IN CASE isString(t) -> <<t.v>>
         [] isArray(t) -> [i \in DOMAIN t.v |-> t.v[i].v]
         [] OTHER -> <<>>

\* Ajv's data type test for one type name
IsType(data, t) ==
    CASE t = "integer" -> data.k = "number"
      [] t \in SimpleTypes -> data.k = t
      [] OTHER -> FALSE

\* the ajv-formats tests, on the strings the model's documents use
FormatValid(format, s) ==
    CASE format = "hostname" -> s \in {"0.0.0.0", "localhost"}
      [] format = "uri" -> s \in {"http://localhost:9876"}
      [] OTHER -> TRUE

ErrorObject(instancePath, schemaPath, keyword, params, message) ==
    [instancePath |-> instancePath, schemaPath |-> schemaPath, keyword |-> keyword,
     params |-> params, message |-> message]

\* The errors of data against schema as the compiled validator collects them
\* with allErrors: the type test first, then the keywords of each rule group that
\* applies to the data's type.
RECURSIVE ValidateNode(_, _, _, _)
ValidateNode(schema, data, instancePath, schemaPath) ==
    LET types == TypesOf(schema)
        typeErrors ==
            IF Len(types) > 0 /\ \A i \in DOMAIN types : ~IsType(data, types[i])
            THEN <<ErrorObject(instancePath, schemaPath \o "/type", "type",
                               Obj(<<P("type", Get(schema, "type"))>>),
                               "must be " \o Join(types, ","))>>
            ELSE <<>>
        maximum == Get(schema, "maximum")
        minimum == Get(schema, "minimum")
        numberErrors ==
            IF data.k = "number"
            THEN (IF ~isUndefined(maximum) /\ data.v > maximum.v
                  THEN <<ErrorObject(instancePath, schemaPath \o "/maximum", "maximum",
                                     Obj(<<P("comparison", Str("<=")), P("limit", maximum)>>),
                                     "must be <= " \o ToString(maximum.v))>>
                  ELSE <<>>)
                 \o
                 (IF ~isUndefined(minimum) /\ data.v < minimum.v
                  THEN <<ErrorObject(instancePath, schemaPath \o "/minimum", "minimum",
                                     Obj(<<P("comparison", Str(">=")), P("limit", minimum)>>),
                                     "must be >= " \o ToString(minimum.v))>>
                  ELSE <<>>)
            ELSE <<>>
        format == Get(schema, "format")
        stringErrors ==
            IF data.k = "string" /\ ~isUndefined(format) /\ ~FormatValid(format.v, data.v)
            THEN <<ErrorObject(instancePath, schemaPath \o "/format", "format",
                               Obj(<<P("format", format)>>),
                               "must match format \"" \o format.v \o "\"")>>
            ELSE <<>>
        enum == Get(schema, "enum")
        enumErrors ==
            IF ~isUndefined(enum) /\ ~\E i \in DOMAIN enum.v : enum.v[i] = data
            THEN <<ErrorObject(instancePath, schemaPath \o "/enum", "enum",
                               Obj(<<P("allowedValues", enum)>>),
                               "must be equal to one of the allowed values")>>
            ELSE <<>>
        items == Get(schema, "items")
        arrayErrors ==
            IF data.k = "array"
            THEN (IF Get(schema, "uniqueItems") = Bool(TRUE)
                     /\ \E i, j \in DOMAIN data.v : i < j /\ data.v[i] = data.v[j]
                  THEN <<ErrorObject(instancePath, schemaPath \o "/uniqueItems", "uniqueItems",
                                     Obj(<<>>), "must NOT have duplicate items")>>
                  ELSE <<>>)
                 \o
                 (IF items.k = "object"
                  THEN Flatten([i \in DOMAIN data.v |->
                          ValidateNode(items, data.v[i],
                                       instancePath \o "/" \o ToString(i - 1),
                                       schemaPath \o "/items")])
                  ELSE <<>>)
            ELSE <<>>
        properties == Get(schema, "properties")
        objectErrors ==
            IF data.k = "object"
            THEN (IF Get(schema, "additionalProperties") = Bool(FALSE)
                  THEN Flatten([i \in DOMAIN data.v |->
                          IF Has(properties, data.v[i].key)
                          THEN <<>>
                          ELSE <<ErrorObject(instancePath, schemaPath \o "/additionalProperties",
                                             "additionalProperties",
                                             Obj(<<P("additionalProperty", Str(data.v[i].key))>>),
                                             "must NOT have additional properties")>>])
                  ELSE <<>>)
                 \o
                 Flatten([i \in DOMAIN Keys(properties) |->
                    IF Has(data, Keys(properties)[i])
                    THEN ValidateNode(Vals(properties)[i], Get(data, Keys(properties)[i]),
                                      instancePath \o "/" \o Keys(properties)[i],
                                      schemaPath \o "/properties/" \o Keys(properties)[i])
                    ELSE <<>>])
            ELSE <<>>
    IN typeErrors \o numberErrors \o stringErrors \o enumErrors \o arrayErrors \o objectErrors

\* the compiled validator of a registered schema: validator(data) and validator.errors
Collected(all) == IF ajvOptions.allErrors \/ Len(all) = 0 THEN all ELSE <<Head(all)>>

Validator(schema, data) == Collected(ValidateNode(schema, data, "", "#"))

\* validateConfig(value): the errors, or the throw when the core schema is missing
validateConfig(tbl, value) ==
    IF APPIUM_CONFIG_SCHEMA_ID \notin DOMAIN tbl
    THEN Thrown("Error", <<"Could not find schema with ID: ", APPIUM_CONFIG_SCHEMA_ID>>)
    ELSE Returned(Validator(getSchema(tbl, APPIUM_CONFIG_SCHEMA_ID), value))


(* ---------------------------- normalization ---------------------------- *)

\* a camel-casing that lower-cases the word before joining its parts
camelCaseFromLower(s) ==
    CASE s = "log-level" -> "logLevel"
      [] s = "allow-cors" -> "allowCors"
      [] s = "callback-port" -> "callbackPort"
      [] s = "default-capabilities" -> "defaultCapabilities"
      [] s = "allow-insecure" -> "allowInsecure"
      [] s = "logFile" -> "logfile"
      [] s = "allowCors" -> "allowcors"
      [] OTHER -> s

\* _.camelCase on the keys the model's schemas and documents use
camelCase(s) ==
    CASE s = "log-filters" -> "logFilters"
      [] s = "allow-cors" -> "allowCors"
      [] s = "base-path" -> "basePath"
      [] s = "keep-alive-timeout" -> "keepAliveTimeout"
      [] s = "callback-address" -> "callbackAddress"
      [] s = "callback-port" -> "callbackPort"
      [] s = "session-override" -> "sessionOverride"
      [] s = "log-level" -> "logLevel"
      [] s = "log-timestamp" -> "logTimestamp"
      [] s = "local-timezone" -> "localTimezone"
      [] s = "log-no-colors" -> "logNoColors"
      [] s = "no-perms-check" -> "noPermsCheck"
      [] s = "strict-caps" -> "strictCaps"
      [] s = "trace-dir" -> "traceDir"
      [] s = "debug-log-spacing" -> "debugLogSpacing"
      [] s = "long-stacktrace" -> "longStacktrace"
      [] s = "default-capabilities" -> "defaultCapabilities"
      [] s = "relaxed-security" -> "relaxedSecurity"
      [] s = "allow-insecure" -> "allowInsecure"
      [] s = "deny-insecure" -> "denyInsecure"
      [] s = "silly-web-server-port" -> "sillyWebServerPort"
      [] s = "unknown-key" -> "unknownKey"
      [] s = "unknown-top" -> "unknownTop"
      [] s = "fake-plugin" -> "fakePlugin"
      [] s = "Log" -> "log"
      [] s = "log_level" -> "logLevel"
      [] s = "Port" -> "port"
      [] OTHER -> s

\* the object _.mapKeys builds: result[newKeys[i]] = vals[i], in enumeration order,
\* so that a later entry replaces the value of an earlier one with the same new key
RECURSIVE AssignAll(_, _, _)
AssignAll(newKeys, vals, acc) ==
    IF Len(newKeys) = 0 THEN acc
    ELSE AssignAll(Tail(newKeys), Tail(vals), Put(acc, Head(newKeys), Head(vals)))

mapKeys(object, newKeys) == Obj(AssignAll(newKeys, Vals(object), <<>>))

\* dest ?? _.camelCase(key)
DestOr(dest, key) == IF Nullish(dest) THEN camelCase(key) ELSE dest.v

\* node?.appiumDest
DestOf(node) == IF Nullish(node) THEN Undefined ELSE Get(node, "appiumDest")

\* node?.properties[key]?.appiumDest, for a node that has properties or is nullish
ChildDestOf(node, key) ==
    IF Nullish(node) THEN Undefined ELSE DestOf(Get(Get(node, "properties"), key))

\* the key a child of top-level entry subConfigName is renamed to:
\* jsonSchema.properties[subConfigName]?.properties[key]?.appiumDest ?? _.camelCase(key)
ChildDest(jsonSchema, subConfigName, key) ==
    DestOr(ChildDestOf(Get(Get(jsonSchema, "properties"), subConfigName), key), key)

\* whether the read .properties[key] is of a schema node that has no properties
NoProperties(node) == ~Nullish(node) /\ Nullish(Get(node, "properties"))

ChildDestThrows(jsonSchema, subConfigName) ==
    NoProperties(Get(Get(jsonSchema, "properties"), subConfigName))

\* jsonSchema.properties[subConfigName]?.appiumDest ?? _.camelCase(subConfigName)
TopDest(jsonSchema, subConfigName) ==
    DestOr(DestOf(Get(Get(jsonSchema, "properties"), subConfigName)), subConfigName)

\* the two _.mapKeys of normalizeConfig, with the schema it found
normalizeWith(jsonSchema, config) ==
    IF \E i \in DOMAIN Keys(config) :
          /\ isObject(Vals(config)[i])
          /\ Len(Keys(Vals(config)[i])) > 0
          /\ ChildDestThrows(jsonSchema, Keys(config)[i])
    THEN Thrown("TypeError", <<"Cannot read properties of undefined">>)
    ELSE Returned(mapKeys(
            Obj([i \in DOMAIN Keys(config) |->
                   P(Keys(config)[i],
                     IF ~isObject(Vals(config)[i])
                     THEN Vals(config)[i]
                     ELSE mapKeys(Vals(config)[i],
                                  [j \in DOMAIN Keys(Vals(config)[i]) |->
                                     ChildDest(jsonSchema, Keys(config)[i], Keys(Vals(config)[i])[j])]))]),
            [i \in DOMAIN Keys(config) |-> TopDest(jsonSchema, Keys(config)[i])]))

\* normalizeConfig(config): the new object, or the error thrown on the way
normalizeConfig(tbl, config) ==
    IF APPIUM_CONFIG_SCHEMA_ID \notin DOMAIN tbl
    THEN Thrown("Error", <<"Could not find the Appium Configuration Schema! What Gives?">>)
    ELSE normalizeWith(getSchema(tbl, APPIUM_CONFIG_SCHEMA_ID), config)

(* ------------------------------ config files --------------------------- *)

GOOD_FILEPATH == "/fixtures/appium.config.good.json"
BAD_FILEPATH == "/fixtures/appium.config.bad.json"
INVALID_JSON_FILEPATH == "/fixtures/appium.config.invalid.json"
DRIVER_FILEPATH == "/fixtures/appium.config.driver.json"
YAML_FILEPATH == "/fixtures/appium.config.yaml"
INVALID_YAML_FILEPATH == "/fixtures/appium.config.invalid.yaml"
EMPTY_FILEPATH == "/fixtures/appium.config.empty.json"
MISSING_FILEPATH == "/fixtures/missing.json"
UNREADABLE_FILEPATH == "/fixtures/unreadable.json"

\* the paths a caller passes to readConfigFile
FilePaths ==
    {GOOD_FILEPATH, BAD_FILEPATH, INVALID_JSON_FILEPATH, DRIVER_FILEPATH, YAML_FILEPATH,
     INVALID_YAML_FILEPATH, EMPTY_FILEPATH, MISSING_FILEPATH, UNREADABLE_FILEPATH}

\* the files lilconfig's search of the conventional places can come upon
SearchPlaces == {GOOD_FILEPATH, BAD_FILEPATH, YAML_FILEPATH}

\* fs.readFile: the text of a file, or the error of the read
ReadFile(filepath) ==
    CASE filepath = GOOD_FILEPATH ->
            Returned("{\"server\": {\"port\": 4723, \"log-level\": \"debug\", \"allow-cors\": true}}")
      [] filepath = BAD_FILEPATH ->
            Returned("{\"server\": {\"port\": \"notanumber\", \"callback-port\": 70000}}")
      [] filepath = INVALID_JSON_FILEPATH ->
            Returned("{\"server\": {\"port\": 4723,}}")
      [] filepath = DRIVER_FILEPATH ->
            Returned("{\"driver\": {\"fake\": {\"silly-web-server-port\": 1234}}}")
      [] filepath = YAML_FILEPATH ->
            Returned("server:\n  log: /tmp/appium.log\n")
      [] filepath = INVALID_YAML_FILEPATH ->
            Returned("server: [port: 4723\n")
      [] filepath = EMPTY_FILEPATH -> Returned("")
      [] filepath = UNREADABLE_FILEPATH ->
            [outcome |-> "throw",
             value |-> [name |-> "Error", code |-> "EACCES", message |-> <<"EACCES: permission denied">>]]
      [] OTHER ->
            [outcome |-> "throw",
             value |-> [name |-> "Error", code |-> "ENOENT", message |-> <<"ENOENT: no such file or directory">>]]

\* JSON.parse on the texts of the files
JSONParse(content) ==
    CASE content = "{\"server\": {\"port\": 4723, \"log-level\": \"debug\", \"allow-cors\": true}}" ->
            Returned(Obj(<<P("server", Obj(<<P("port", Num(4723)), P("log-level", Str("debug")),
                                             P("allow-cors", Bool(TRUE))>>))>>))
      [] content = "{\"server\": {\"port\": \"notanumber\", \"callback-port\": 70000}}" ->
            Returned(Obj(<<P("server", Obj(<<P("port", Str("notanumber")),
                                             P("callback-port", Num(70000))>>))>>))
      [] content = "{\"driver\": {\"fake\": {\"silly-web-server-port\": 1234}}}" ->
            Returned(Obj(<<P("driver", Obj(<<P("fake",
                        Obj(<<P("silly-web-server-port", Num(1234))>>))>>))>>))
      [] OTHER ->
            [outcome |-> "throw",
             value |-> [name |-> "SyntaxError", code |-> "",
                        message |-> <<"Unexpected token } in JSON">>]]

\* yaml.parse on the texts of the files; the error it throws is of the yaml
\* package's own class, which is no SyntaxError
YAMLParse(content) ==
    CASE content = "server:\n  log: /tmp/appium.log\n" ->
            Returned(Obj(<<P("server", Obj(<<P("log", Str("/tmp/appium.log"))>>))>>))
      [] OTHER ->
            [outcome |-> "throw",
             value |-> [name |-> "YAMLParseError", code |-> "BAD_COLLECTION",
                        message |-> <<"Flow sequence in block collection must be sufficiently indented and end with a ]">>]]

\* path.extname of a config path
ExtName(filepath) ==
    IF filepath \in {YAML_FILEPATH, INVALID_YAML_FILEPATH} THEN ".yaml" ELSE ".json"

NoResult == [config |-> Undefined, filepath |-> Undefined, isEmpty |-> Undefined]

\* jsonLoader(filepath, content): the cache afterwards and the parse
jsonLoader(cache, filepath, content) ==
    [cache |-> [f \in DOMAIN cache \cup {filepath} |-> IF f = filepath THEN content ELSE cache[f]],
     result |-> JSONParse(content)]

yamlLoader(cache, filepath, content) == [cache |-> cache, result |-> YAMLParse(content)]

\* lilconfig's load of one file with the loaders findConfigFile configures: the
\* read, the empty-file test, then the loader the extension selects
LilconfigLoad(cache, filepath) ==
    LET read == ReadFile(filepath)
    IN IF read.outcome = "throw" THEN [cache |-> cache, result |-> read]
       ELSE IF read.value = ""
       THEN [cache |-> cache,
             result |-> Returned([config |-> Undefined, filepath |-> Str(filepath), isEmpty |-> Bool(TRUE)])]
       ELSE LET loaded == IF ExtName(filepath) \in {".yaml", ".yml"}
                          THEN yamlLoader(cache, filepath, read.value)
                          ELSE jsonLoader(cache, filepath, read.value)
            IN [cache |-> loaded.cache,
                result |-> IF loaded.result.outcome = "throw" THEN loaded.result
                           ELSE Returned([config |-> loaded.result.value, filepath |-> Str(filepath),
                                          isEmpty |-> Undefined])]

\* loadConfigFile(lc, filepath): lc.load with the rejection's message rewritten
loadConfigFile(cache, filepath) ==
    LET loaded == LilconfigLoad(cache, filepath)
        err == loaded.result.value
    IN IF loaded.result.outcome = "return" THEN loaded
       ELSE [cache |-> loaded.cache,
             result |-> [outcome |-> "throw",
                         value |-> IF err.code = "ENOENT"
                                   THEN [err EXCEPT !.message =
                                           <<"Config file not found at user-provided path: ", filepath>>]
                                   ELSE IF err.name = "SyntaxError"
                                   THEN [err EXCEPT !.message =
                                           <<"Config file at user-provided path ", filepath,
                                             " is invalid:\n">> \o err.message]
                                   ELSE err]]

\* searchConfigFile(lc): lc.search() comes upon the file at place, or upon none
searchConfigFile(cache, place) ==
    IF place = "" THEN [cache |-> cache, result |-> Returned(Undefined)]
    ELSE LilconfigLoad(cache, place)

\* findConfigFile searching the conventional places whether a path is given or not
findConfigFileSearching(cache, filepath, place) ==
    LET found == searchConfigFile(cache, place)
    IN IF found.result.outcome = "return" /\ found.result.value = Undefined
       THEN [cache |-> found.cache, result |-> Returned(NoResult)]
       ELSE found

\* findConfigFile(filepath): the explicit load or the search, and ?? {}
findConfigFile(cache, filepath, place) ==
    LET found == IF Truthy(filepath) THEN loadConfigFile(cache, filepath.v)
                 ELSE searchConfigFile(cache, place)
    IN IF found.result.outcome = "return" /\ found.result.value = Undefined
       THEN [cache |-> found.cache, result |-> Returned(NoResult)]
       ELSE found


\* the value each error is grouped under: errorObj.parentSchema?.$id
GroupId(errorObj) ==
    IF "parentSchema" \in DOMAIN errorObj /\ ~Nullish(errorObj.parentSchema)
    THEN Get(errorObj.parentSchema, "$id")
    ELSE Undefined

\* the schema a group is rendered against: errors[0].parentSchema
ParentSchema(errorObj) ==
    IF "parentSchema" \in DOMAIN errorObj THEN errorObj.parentSchema ELSE Undefined

\* what better-ajv-errors is called with for one group
betterAjvErrors(schema, data, errors, json, format) ==
    [schema |-> schema, data |-> data, errors |-> errors, json |-> json, format |-> format]

\* the group ids of _.groupBy, in the order of their first error
RECURSIVE GroupIds(_, _)
GroupIds(errors, acc) ==
    IF Len(errors) = 0 THEN acc
    ELSE GroupIds(Tail(errors),
                  IF \E i \in DOMAIN acc : acc[i] = GroupId(Head(errors))
                  THEN acc ELSE Append(acc, GroupId(Head(errors))))

\* formatErrors(errors, result, opts): one rendered block per group, joined by "\n\n"
formatErrors(errors, config, json, pretty) ==
    LET ids == GroupIds(errors, <<>>)
        format == IF pretty THEN "cli" ELSE "js"
    IN [g \in DOMAIN ids |->
          LET group == SelectSeq(errors, LAMBDA e : GroupId(e) = ids[g])
          IN betterAjvErrors(ParentSchema(group[1]), config, group, json, format)]

CacheGet(cache, filepath) == IF filepath \in DOMAIN cache THEN Str(cache[filepath]) ELSE Undefined
CacheDelete(cache, filepath) == [f \in DOMAIN cache \ {filepath} |-> cache[f]]

\* the reason string: formatErrors over the errors, empty for none
ReasonOf(errors, config, json, pretty) ==
    IF Len(errors) = 0 THEN <<>> ELSE formatErrors(errors, config, json, pretty)

\* the object the try block returns, or the error thrown inside it
TryBlock(result, validated, normalized, reason) ==
    IF validated.outcome = "throw" THEN validated
    ELSE IF normalized.outcome = "throw" THEN normalized
    ELSE Returned([config |-> normalized.value, filepath |-> result.filepath,
                   isEmpty |-> result.isEmpty, errors |-> validated.value, reason |-> reason])

\* the try block with the errors validateConfig produced
TryBlockWith(tbl, cache, result, opts, validated) ==
    TryBlock(result, validated,
             IF opts.normalize THEN normalizeConfig(tbl, result.config) ELSE Returned(result.config),
             IF validated.outcome = "throw" THEN <<>>
             ELSE ReasonOf(validated.value, result.config, CacheGet(cache, result.filepath.v),
                           opts.pretty))

\* readConfigFile after await findConfigFile(filepath) has resolved with result:
\* the cache afterwards, and what the promise settles with
readConfigFileFound(tbl, cache, result, opts) ==
    IF Truthy(result.config) /\ Truthy(result.filepath) /\ ~Truthy(result.isEmpty)
    THEN [cache |-> CacheDelete(cache, result.filepath.v),   \* the finally block
          result |-> TryBlockWith(tbl, cache, result, opts, validateConfig(tbl, result.config))]
    ELSE [cache |-> cache, result |-> Returned(result)]

(* ---------------------------- driver manifest -------------------------- *)

\* a list of extensions that allows every file
ALLOWED_ARG_SCHEMA_EXTNAMES_ANY == {".json", ".js", ".cjs", ".java", ""}

ALLOWED_ARG_SCHEMA_EXTNAMES == {".json", ".js", ".cjs"}

\* path.extname of the schema fields the model's manifests use
PathExtName(p) ==
    CASE p \in {"driver.schema.js"} -> ".js"
      [] p \in {"herp.json", "plugin.schema.json", "bad.schema.json"} -> ".json"
      [] p = "selenium.java" -> ".java"
      [] OTHER -> ""

\* path.resolve(installSpec, argSchema) for a relative argSchema
PathResolve(installSpec, argSchema) == installSpec \o "/" \o argSchema

\* require(schemaPath): the module's export, or the error of a module that cannot be loaded
Require(schemaPath) ==
    CASE schemaPath = "/fixtures/driver.schema.js" -> Returned("fakeDriverSchema")
      [] schemaPath = "/fixtures/plugin.schema.json" -> Returned("fakePluginSchema")
      [] schemaPath = "/fixtures/bad.schema.json" -> Returned("badTypeSchema")
      [] OTHER -> [outcome |-> "throw",
                   value |-> [name |-> "Error", code |-> "MODULE_NOT_FOUND",
                              message |-> <<"Cannot find module '", schemaPath, "'">>]]

Problem(err, val) == [err |-> err, val |-> val]

\* the body of the try block: require, then registerSchema with the package's name
RequireAndRegister(tbl, required, pkgName) ==
    IF required.outcome = "throw" THEN [tbl |-> tbl, result |-> required]
    ELSE registerSchema(tbl, required.value, pkgName)

\* a catch block that reports the failed registration alone
RegisterProblemsAlone(tbl, before, argSchema, schemaPath, registered) ==
    IF registered.result.outcome = "throw"
    THEN [tbl |-> tbl,
          result |-> Returned(<<Problem(<<"Unable to register schema at ", schemaPath>>, argSchema)>>)]
    ELSE [tbl |-> registered.tbl, result |-> Returned(before)]

\* the catch block: a throw of the try block becomes one more problem
RegisterProblems(tbl, before, argSchema, schemaPath, registered) ==
    IF registered.result.outcome = "throw"
    THEN [tbl |-> tbl,
          result |-> Returned(Append(before,
                         Problem(<<"Unable to register schema at ", schemaPath>>, argSchema)))]
    ELSE [tbl |-> registered.tbl, result |-> Returned(before)]

\* getConfigProblems(driver): the schema table afterwards, and the problems returned
\* or the error thrown
getConfigProblems(tbl, driver) ==
    LET platformNames == driver.platformNames
        automationName == driver.automationName
        argSchema == driver.schema
        installSpec == driver.installSpec
        pkgName == driver.pkgName
        \* the list is created anew by every call
        automationNames == <<>>
        platformProblems ==
            IF ~isArray(platformNames)
            THEN <<Problem(<<"Missing or incorrect supported platformNames list.">>, platformNames)>>
            ELSE IF Len(platformNames.v) = 0
            THEN <<Problem(<<"Empty platformNames list.">>, platformNames)>>
            ELSE SelectSeq([i \in DOMAIN platformNames.v |->
                              Problem(<<"Incorrectly formatted platformName.">>, platformNames.v[i])],
                           LAMBDA pr : ~isString(pr.val))
        automationProblems ==
            (IF ~isString(automationName)
             THEN <<Problem(<<"Missing or incorrect automationName">>, automationName)>>
             ELSE <<>>)
            \o
            (IF \E i \in DOMAIN automationNames : automationNames[i] = automationName
             THEN <<Problem(<<"Multiple drivers claim support for the same automationName">>,
                            automationName)>>
             ELSE <<>>)
        before == platformProblems \o automationProblems
    IN IF isUndefined(argSchema) THEN [tbl |-> tbl, result |-> Returned(before)]
       ELSE IF ~isString(argSchema)
       THEN [tbl |-> tbl,
             result |-> Returned(Append(before,
                            Problem(<<"Incorrectly formatted schema field.">>, argSchema)))]
       ELSE IF PathExtName(argSchema.v) \notin ALLOWED_ARG_SCHEMA_EXTNAMES
       THEN [tbl |-> tbl,
             result |-> Returned(Append(before,
                            Problem(<<"Schema file has unsupported extension. Allowed: ",
                                      ".json, .js, .cjs">>, argSchema)))]
       ELSE IF ~isString(installSpec)
       THEN \* path.resolve rejects an argument that is no string, outside the try block
            [tbl |-> tbl,
             result |-> [outcome |-> "throw",
                         value |-> [name |-> "TypeError", code |-> "ERR_INVALID_ARG_TYPE",
                                    message |-> <<"The \"paths[0]\" argument must be of type string">>]]]
       ELSE RegisterProblems(tbl, before, argSchema, PathResolve(installSpec.v, argSchema.v),
                             RequireAndRegister(tbl, Require(PathResolve(installSpec.v, argSchema.v)),
                                                pkgName))

Driver(platformNames, automationName, schema, installSpec, pkgName) ==
    [platformNames |-> platformNames, automationName |-> automationName, schema |-> schema,
     installSpec |-> installSpec, pkgName |-> pkgName]

\* the manifest entries getConfigProblems is called with
ManifestEntries ==
    {Driver(Arr(<<Str("Android")>>), Str("uiautomator2"), Undefined, Str("/fixtures"), Str("fake-driver")),
     Driver(Arr(<<Str("Android")>>), Str("uiautomator2"), Str("driver.schema.js"), Str("/fixtures"),
            Str("fake-driver")),
     Driver(Arr(<<>>), Undefined, Str("plugin.schema.json"), Str("/fixtures"), Str("fake-driver")),
     Driver(Undefined, Str("fake"), Str("bad.schema.json"), Str("/fixtures"), Str("fake-driver")),
     Driver(Arr(<<Str("a"), Num(1)>>), Str("fake"), Str("herp.json"), Str("/usr/bin/derp"),
            Str("@herp/derp")),
     Driver(Str("foo"), Str("fake"), Str("selenium.java"), Str("/fixtures"), Str("fake-driver")),
     Driver(Arr(<<Str("Android")>>), Str("fake"), Arr(<<>>), Str("/fixtures"), Str("fake-driver")),
     Driver(Arr(<<Str("Android")>>), Str("fake"), Str("driver.schema.js"), Undefined, Undefined)}

(* ------------------------- CLI argument projection --------------------- *)

\* a function value, and a reference to the schema document a handle names
Fn(name) == [k |-> "function", v |-> name]
Ref(h) == [k |-> "ref", v |-> h]

SHORT_ARG_CUTOFF == 3

\* every flag with two dashes, whatever its length
DashFlagAlwaysLong(alias) == "--" \o alias

\* alias.length < SHORT_ARG_CUTOFF ? `-${alias}` : `--${alias}`
DashFlag(alias) == IF Len(alias) < SHORT_ARG_CUTOFF THEN "-" \o alias ELSE "--" \o alias

\* aliasToFlag(alias, prefix): the prefix, when there is one, is joined to the
\* alias with a dot before the length is looked at
aliasToFlag(alias, prefix) ==
    DashFlag(IF Truthy(prefix) THEN prefix.v \o "." \o alias ELSE alias)

\* String(x) of an enum member
StringOf(x) ==
    CASE x.k = "string" -> x.v
      [] x.k = "number" -> ToString(x.v)
      [] x.k = "boolean" -> IF x.v THEN "true" ELSE "false"
      [] OTHER -> x.k

\* _.includes(arr, s)
includes(arr, s) == \E i \in DOMAIN arr.v : arr.v[i] = Str(s)

\* the options of toParserArgs, filterSchemaProperties and getDefaultsFromSchema
Opts(schema, id, property, exclude, overrides, assignDefaults, prefix) ==
    [schema |-> schema, id |-> id, property |-> property, exclude |-> exclude,
     overrides |-> overrides, assignDefaults |-> assignDefaults, prefix |-> prefix]

\* [aliasToFlag(name, prefix), ...(subSchema.appiumAliases ?? []).map(...)]
Aliases(name, appiumAliases, prefix) ==
    Arr(<<Str(aliasToFlag(name, prefix))>> \o
        [i \in DOMAIN Vals(appiumAliases) |-> Str(aliasToFlag(Vals(appiumAliases)[i].v, prefix))])

\* argOpts as it is first built
BaseOpts(name, subSchema) ==
    <<P("required", Bool(FALSE)),
      P("dest", IF Nullish(Get(subSchema, "appiumDest")) THEN Str(camelCase(name))
                ELSE Get(subSchema, "appiumDest")),
      P("help", Get(subSchema, "description"))>>

\* if (assignDefaults) argOpts.default = fallback, whatever the node declares
AssignFallback(argOpts, assignDefaults, declared, fallback) ==
    IF Truthy(assignDefaults) THEN Put(argOpts, "default", fallback) ELSE argOpts

\* if (assignDefaults) argOpts.default = subSchema.default ?? fallback
AssignDefault(argOpts, assignDefaults, declared, fallback) ==
    IF Truthy(assignDefaults)
    THEN Put(argOpts, "default", IF Nullish(declared) THEN fallback ELSE declared)
    ELSE argOpts

\* subSchema.default ?? _.includes(subSchema.type, 'array') ? [] : null, which is
\* (subSchema.default ?? _.includes(...)) ? [] : null
UnionDefault(declared, type) ==
    IF Truthy(IF Nullish(declared) THEN Bool(includes(type, "array")) ELSE declared)
    THEN Arr(<<>>) ELSE Null

\* the branch on subSchema.type
TypedOpts(argOpts, type, declared, assignDefaults) ==
    CASE isArray(type) ->
            IF Truthy(assignDefaults) THEN Put(argOpts, "default", UnionDefault(declared, type))
            ELSE argOpts
      [] type = Str("boolean") ->
            AssignDefault(Put(argOpts, "action", Str("store_true")), assignDefaults, declared, Bool(FALSE))
      [] type = Str("object") -> AssignDefault(argOpts, assignDefaults, declared, Obj(<<>>))
      [] type = Str("array") -> AssignDefault(argOpts, assignDefaults, declared, Arr(<<>>))
      [] type = Str("integer") ->
            AssignDefault(Put(argOpts, "type", Str("int")), assignDefaults, declared, Null)
      [] OTHER -> AssignDefault(argOpts, assignDefaults, declared, Null)

\* argOpts.choices = subSchema.enum.map(String), for a non-empty enum
WithChoices(argOpts, enum) ==
    IF isArray(enum) /\ Len(enum.v) > 0
    THEN Put(argOpts, "choices", Arr([i \in DOMAIN enum.v |-> Str(StringOf(enum.v[i]))]))
    ELSE argOpts

\* the schema-derived argOpts, before the overrides
ArgOptsOf(name, subSchema, assignDefaults) ==
    WithChoices(TypedOpts(BaseOpts(name, subSchema), Get(subSchema, "type"),
                          Get(subSchema, "default"), assignDefaults),
                Get(subSchema, "enum"))

\* overrides[name] ?? (argOpts.dest && overrides[argOpts.dest]) ?? {}
OverrideFor(overrides, name, dest) ==
    IF ~Nullish(Get(overrides, name)) THEN Get(overrides, name)
    ELSE IF ~Truthy(dest) THEN (IF Nullish(dest) THEN Obj(<<>>) ELSE dest)
    ELSE IF Nullish(Get(overrides, dest.v)) THEN Obj(<<>>)
    ELSE Get(overrides, dest.v)

\* assignMergeValue(object, key, value): undefined is assigned to a new key only
assignMergeValue(props, key, value) ==
    IF isUndefined(value) /\ (\E i \in DOMAIN props : props[i].key = key) THEN props
    ELSE Put(props, key, value)

\* _.merge(object, source) of lodash: the keys of source are assigned to object in
\* turn; a list or plain object of source is merged, recursively, into the list or
\* object that object holds under the key (into that very value), and into a new
\* one when object holds none; a function is assigned as it is.  A plain object
\* merged into a list sets named properties on the list, which are left out here.
RECURSIVE merge(_, _)
RECURSIVE MergeProps(_, _)
RECURSIVE mergeDeep(_, _)

\* the value baseMerge assigns for objValue = object[key] and srcValue = source[key]
mergeDeep(objValue, srcValue) ==
    CASE srcValue.k = "array" -> merge(IF isArray(objValue) THEN objValue ELSE Arr(<<>>), srcValue)
      [] srcValue.k = "object" -> merge(IF isObject(objValue) THEN objValue ELSE Obj(<<>>), srcValue)
      [] OTHER -> srcValue

MergeProps(props, src) ==
    IF Len(src) = 0 THEN props
    ELSE MergeProps(assignMergeValue(props, Head(src).key,
                                     mergeDeep(Get(Obj(props), Head(src).key), Head(src).val)),
                    Tail(src))

merge(object, source) ==
    CASE object.k = "object" /\ source.k = "object" -> Obj(MergeProps(object.v, source.v))
      [] object.k = "array" /\ source.k = "array" ->
            Arr([i \in 1..(IF Len(object.v) > Len(source.v) THEN Len(object.v) ELSE Len(source.v)) |->
                   IF i > Len(source.v) \/ (i <= Len(object.v) /\ isUndefined(source.v[i]))
                   THEN object.v[i]
                   ELSE mergeDeep(IF i <= Len(object.v) THEN object.v[i] ELSE Undefined, source.v[i])])
      [] OTHER -> object

\* argOpts.default is the node's default itself, not a copy of it
SharesDefault(subSchema, assignDefaults) ==
    /\ Truthy(assignDefaults)
    /\ ~isArray(Get(subSchema, "type"))
    /\ isObject(Get(subSchema, "default"))

\* _.merge merges srcValue into the value objValue refers to, where it stands
MergedInPlace(objValue, srcValue) ==
    \/ isArray(srcValue) /\ isArray(objValue)
    \/ srcValue.k = "object" /\ isObject(objValue)

\* the schema node after the merge
NodeAfter(subSchema, assignDefaults, override, merged) ==
    IF /\ SharesDefault(subSchema, assignDefaults)
       /\ MergedInPlace(Get(subSchema, "default"), Get(override, "default"))
    THEN Obj(Put(subSchema.v, "default", Get(merged, "default")))
    ELSE subSchema

ArgDefMerged(aliases, subSchema, assignDefaults, override, merged) ==
    [def |-> Arr(<<aliases, merged>>),
     subSchema |-> NodeAfter(subSchema, assignDefaults, override, merged)]

ArgDefOver(aliases, subSchema, assignDefaults, argOpts, override) ==
    ArgDefMerged(aliases, subSchema, assignDefaults, override, merge(argOpts, override))

ArgDefOf(name, subSchema, overrides, assignDefaults, prefix, argOpts) ==
    ArgDefOver(Aliases(name, Get(subSchema, "appiumAliases"), prefix), subSchema, assignDefaults,
               Obj(argOpts), OverrideFor(overrides, name, Get(Obj(argOpts), "dest")))

\* subSchemaToArgDef with assignDefaults = true where the option is left out
subSchemaToArgDefAssigning(name, subSchema, opts) ==
    ArgDefOf(name, subSchema,
             IF isUndefined(opts.overrides) THEN Obj(<<>>) ELSE opts.overrides,
             IF isUndefined(opts.assignDefaults) THEN Bool(TRUE) ELSE opts.assignDefaults,
             opts.prefix,
             ArgOptsOf(name, subSchema,
                       IF isUndefined(opts.assignDefaults) THEN Bool(TRUE) ELSE opts.assignDefaults))

\* subSchemaToArgDef(name, subSchema, opts): the tuple [aliases, argOpts] it returns,
\* and the schema node as the call leaves it
subSchemaToArgDef(name, subSchema, opts) ==
    ArgDefOf(name, subSchema,
             IF isUndefined(opts.overrides) THEN Obj(<<>>) ELSE opts.overrides,
             IF isUndefined(opts.assignDefaults) THEN Bool(FALSE) ELSE opts.assignDefaults,
             opts.prefix,
             ArgOptsOf(name, subSchema,
                       IF isUndefined(opts.assignDefaults) THEN Bool(FALSE) ELSE opts.assignDefaults))

\* opts.schema ?? (opts.id ? getSchema(opts.id) : appiumConfigSchema): the handle of
\* the schema, or the error for an id that is not registered
assertValidSchemaOption(tbl, opts) ==
    IF ~Nullish(opts.schema) THEN Returned(opts.schema.v)
    ELSE IF ~Truthy(opts.id) THEN Returned("appiumConfigSchema")
    ELSE IF opts.id.v \in DOMAIN tbl THEN Returned(tbl[opts.id.v])
    ELSE Thrown("Error", <<"Schema with id ", opts.id.v, " not registered!">>)

\* _.omit(object, paths), for paths that are keys: a new object, the same values
omit(object, paths) ==
    Obj(SelectSeq(object.v, LAMBDA p : p.key \notin paths))

\* the properties filterSchemaProperties returns of schema, and whether they are
\* the properties of the server group
Filtered(handle, schema, property, exclude) ==
    IF Truthy(property) /\ Get(schema, "$id") = Str(APPIUM_CONFIG_SCHEMA_ID)
    THEN IF property = Str("server")
         THEN [handle |-> handle, group |-> TRUE,
               properties |-> Get(Get(Get(schema, "properties"), "server"), "properties")]
         ELSE [handle |-> handle, group |-> FALSE, properties |-> Obj(<<>>)]
    ELSE [handle |-> handle, group |-> FALSE,
          properties |-> IF Has(schema, "properties")
                         THEN omit(Get(schema, "properties"), exclude) ELSE Obj(<<>>)]

FilteredOf(docs, found, opts) ==
    IF found.outcome = "throw" THEN found
    ELSE Returned(Filtered(found.value, docs[found.value], opts.property,
                           IF Nullish(opts.exclude) THEN {}
                           ELSE IF isString(opts.exclude) THEN {opts.exclude.v}
                           ELSE {opts.exclude.v[i].v : i \in DOMAIN opts.exclude.v}))

\* filterSchemaProperties(opts)
filterSchemaProperties(docs, tbl, opts) == FilteredOf(docs, assertValidSchemaOption(tbl, opts), opts)

\* properties with the nodes of after in the place of its own
ReplaceNodes(properties, after) ==
    Obj([i \in DOMAIN properties.v |->
           IF Has(after, properties.v[i].key)
           THEN P(properties.v[i].key, Get(after, properties.v[i].key))
           ELSE properties.v[i]])

\* the schema document with the nodes a projection went through as they are now
SchemaAfter(schema, group, after) ==
    IF Len(after.v) = 0 THEN schema
    ELSE IF group
    THEN Obj(Put(schema.v, "properties",
             Obj(Put(Get(schema, "properties").v, "server",
                 Obj(Put(Get(Get(schema, "properties"), "server").v, "properties",
                     ReplaceNodes(Get(Get(Get(schema, "properties"), "server"), "properties"),
                                  after)))))))
    ELSE Obj(Put(schema.v, "properties", ReplaceNodes(Get(schema, "properties"), after)))

Projected(docs, filtered, defs) ==
    [docs |-> [docs EXCEPT ![filtered.handle] =
                  SchemaAfter(docs[filtered.handle], filtered.group,
                              Obj([i \in DOMAIN defs |->
                                     P(filtered.properties.v[i].key, defs[i].subSchema)]))],
     result |-> Returned(Arr([i \in DOMAIN defs |-> defs[i].def]))]

ProjectAll(docs, opts, filtered) ==
    IF filtered.outcome = "throw" THEN [docs |-> docs, result |-> filtered]
    ELSE Projected(docs, filtered.value,
                   [i \in DOMAIN filtered.value.properties.v |->
                      subSchemaToArgDef(filtered.value.properties.v[i].key,
                                        filtered.value.properties.v[i].val, opts)])

\* toParserArgs(opts): the list of argument definitions, and the schema documents
\* as the call leaves them
toParserArgs(docs, tbl, opts) == ProjectAll(docs, opts, filterSchemaProperties(docs, tbl, opts))

\* the defaults keyed by property name, not by destination name
DefaultsOfKeyedByName(properties) ==
    Obj(SelectSeq([i \in DOMAIN properties.v |->
                     P(properties.v[i].key, Get(properties.v[i].val, "default"))],
                  LAMBDA p : ~isUndefined(p.val)))

\* _.omitBy(_.mapValues(_.mapKeys(properties, dest), default), _.isUndefined)
DefaultsOf(properties) ==
    Obj(SelectSeq(
          mapKeys(Obj([i \in DOMAIN properties.v |->
                         P(properties.v[i].key, Get(properties.v[i].val, "default"))]),
                  [i \in DOMAIN properties.v |->
                     camelCase(IF Nullish(DestOf(properties.v[i].val)) THEN properties.v[i].key
                               ELSE DestOf(properties.v[i].val).v)]).v,
          LAMBDA p : ~isUndefined(p.val)))

DefaultsOfFiltered(filtered) ==
    IF filtered.outcome = "throw" THEN filtered ELSE Returned(DefaultsOf(filtered.value.properties))

\* getDefaultsFromSchema(opts)
getDefaultsFromSchema(docs, tbl, opts) == DefaultsOfFiltered(filterSchemaProperties(docs, tbl, opts))

DRIVER_TYPE == "driver"
PLUGIN_TYPE == "plugin"

\* an installed extension: its name and data[SCHEMA_ID_EXTENSION_PROPERTY]
Extension(name, schemaId) == [name |-> name, schemaId |-> schemaId]

\* the arguments of one installed extension: none when its schema is not registered
ExtensionArgs(docs, tbl, type, ext) ==
    IF isString(ext.schemaId) /\ ext.schemaId.v \in DOMAIN tbl
    THEN toParserArgs(docs, tbl,
                      Opts(Ref(tbl[ext.schemaId.v]), Undefined, Undefined, Undefined, Undefined,
                           Undefined, Str(type \o "-" \o ext.name \o "-"))).result.value.v
    ELSE <<>>

\* makeServerExtensionArgs(): the drivers' arguments, then the plugins'
makeServerExtensionArgs(docs, tbl, installed) ==
    Flatten([i \in DOMAIN installed.driver |-> ExtensionArgs(docs, tbl, DRIVER_TYPE, installed.driver[i])])
    \o Flatten([i \in DOMAIN installed.plugin |-> ExtensionArgs(docs, tbl, PLUGIN_TYPE, installed.plugin[i])])

DEFAULT_BASE_PATH == ""

\* the overrides getServerArgs passes
serverOverrides ==
    Obj(<<P("allowInsecure", Obj(<<P("type", Fn("parseSecurityFeatures"))>>)),
          P("basePath", Obj(<<P("default", Str(DEFAULT_BASE_PATH))>>)),
          P("defaultCapabilities", Obj(<<P("type", Fn("parseJsonStringOrFile"))>>)),
          P("denyInsecure", Obj(<<P("type", Fn("parseSecurityFeatures"))>>)),
          P("drivers", Obj(<<P("type", Fn("parseDriverNames"))>>)),
          P("nodeconfig", Obj(<<P("type", Fn("parseJsonStringOrFile"))>>)),
          P("plugins", Obj(<<P("type", Fn("parsePluginNames"))>>))>>)

serverArgsDisallowedInConfig ==
    <<Arr(<<Arr(<<Str("--shell")>>),
            Obj(<<P("required", Bool(FALSE)), P("default", Null), P("help", Str("Enter REPL mode")),
                  P("action", Str("store_true")), P("dest", Str("shell"))>>)>>),
      Arr(<<Arr(<<Str("--show-config")>>),
            Obj(<<P("default", Bool(FALSE)), P("dest", Str("showConfig")),
                  P("action", Str("store_true")), P("required", Bool(FALSE)),
                  P("help", Str("Show info about the appium server configuration and exit"))>>)>>),
      Arr(<<Arr(<<Str("--config")>>),
            Obj(<<P("dest", Str("configFile")), P("type", Str("string")), P("required", Bool(FALSE)),
                  P("help", Str("Explicit path to Appium configuration file"))>>)>>)>>

ServerArgsOf(core, extension) ==
    [docs |-> core.docs,
     result |-> Returned(Arr(core.result.value.v \o serverArgsDisallowedInConfig \o extension))]

\* the function _.once wraps in getServerArgs: the server group's arguments, the
\* arguments a config file cannot carry, and the extensions' arguments
getServerArgs(docs, tbl, installed) ==
    ServerArgsOf(toParserArgs(docs, tbl, Opts(Undefined, Undefined, Str("server"), Undefined,
                                              serverOverrides, Undefined, Undefined)),
                 makeServerExtensionArgs(docs, tbl, installed))

(* -------------------------------- the state ---------------------------- *)

VARIABLES
    schemas,    \* the Ajv instance's added schemas: key -> handle of the document
    rawConfig,  \* the raw-text cache: filepath -> content
    pc,         \* where each readConfigFile call stands
    load,       \* each call's arguments, located result and settled outcome
    call,       \* the last synchronous call of the schema API and its result
    documents,  \* the schema documents as they are now: handle -> value
    serverArgs  \* what _.once keeps of the first getServerArgs call, and the
                \* extensions the manifests listed when it ran

vars == <<schemas, rawConfig, pc, load, call, documents, serverArgs>>

\* the schema documents of the core and of the extension packages
DocumentHandles == SchemaHandles \cup {"otherPluginSchema"}

NoServerArgs ==
    [called |-> FALSE, installed |-> [driver |-> <<>>, plugin |-> <<>>],
     result |-> Returned(Undefined)]

Loads == {"load1"}

NoCall == [op |-> "none", args |-> <<>>, pre |-> <<>>, result |-> Returned(Undefined)]
NoLoad == [filepath |-> Undefined, opts |-> [normalize |-> TRUE, pretty |-> TRUE],
           found |-> Returned(NoResult), settled |-> Returned(NoResult)]

\* the options callers pass to readConfigFile: the defaults, or one of them off
ReadOpts ==
    {[normalize |-> TRUE, pretty |-> TRUE], [normalize |-> FALSE, pretty |-> TRUE],
     [normalize |-> TRUE, pretty |-> FALSE]}

\* the values validateConfig is called with between the other operations
ValidatedValues ==
    {Obj(<<P("server", Obj(<<P("port", Str("notanumber"))>>))>>),
     Obj(<<P("server", Obj(<<P("port", Num(4723))>>))>>)}

\* the id arguments callers pass to registerSchema
IdArgs == {Undefined, Str(""), Str("fake-driver")}

Init ==
    /\ schemas = registerSchema(<<>>, "appiumConfigSchema", Undefined).tbl
    /\ rawConfig = <<>>
    /\ pc = [p \in Loads |-> "idle"]
    /\ load = [p \in Loads |-> NoLoad]
    /\ call = NoCall
    /\ documents = [h \in DocumentHandles |-> Deref(h)]
    /\ serverArgs = NoServerArgs

\* registerSchema(rawSchema, id)
RegisterSchema(rawSchema, id) ==
    LET done == registerSchema(schemas, rawSchema, id)
    IN /\ schemas' = done.tbl
       /\ call' = [op |-> "registerSchema", args |-> <<rawSchema, id>>, pre |-> schemas,
                   result |-> done.result]
       /\ UNCHANGED <<rawConfig, pc, load, documents, serverArgs>>

\* validateConfig(value)
ValidateConfig(value) ==
    /\ call' = [op |-> "validateConfig", args |-> <<value>>, pre |-> schemas,
                result |-> validateConfig(schemas, value)]
    /\ UNCHANGED <<schemas, rawConfig, pc, load, documents, serverArgs>>

\* getConfigProblems(driver)
GetConfigProblems(driver) ==
    LET done == getConfigProblems(schemas, driver)
    IN /\ schemas' = done.tbl
       /\ call' = [op |-> "getConfigProblems", args |-> <<driver>>, pre |-> schemas,
                   result |-> done.result]
       /\ UNCHANGED <<rawConfig, pc, load, documents, serverArgs>>

\* readConfigFile(filepath, opts) is called and suspends in findConfigFile
ReadConfigFile(p, filepath, opts) ==
    /\ pc[p] = "idle"
    /\ pc' = [pc EXCEPT ![p] = "finding"]
    /\ load' = [load EXCEPT ![p] = [NoLoad EXCEPT !.filepath = filepath, !.opts = opts]]
    /\ UNCHANGED <<schemas, rawConfig, call, documents, serverArgs>>

\* the file is read (or the search comes upon place) and its loader runs
FindConfigFile(p, place) ==
    /\ pc[p] = "finding"
    /\ LET found == findConfigFile(rawConfig, load[p].filepath, place)
       IN /\ rawConfig' = found.cache
          /\ load' = [load EXCEPT ![p].found = found.result]
    /\ pc' = [pc EXCEPT ![p] = "found"]
    /\ UNCHANGED <<schemas, call, documents, serverArgs>>

\* readConfigFile resumes after its await and runs to its end
Settle(p) ==
    /\ pc[p] = "found"
    /\ IF load[p].found.outcome = "throw"
       THEN /\ load' = [load EXCEPT ![p].settled = load[p].found]
            /\ UNCHANGED rawConfig
       ELSE LET done == readConfigFileFound(schemas, rawConfig, load[p].found.value, load[p].opts)
            IN /\ load' = [load EXCEPT ![p].settled = done.result]
               /\ rawConfig' = done.cache
    /\ pc' = [pc EXCEPT ![p] = "settled"]
    /\ UNCHANGED <<schemas, call, documents, serverArgs>>

\* the caller takes the outcome; the slot is free for another call
Take(p) ==
    /\ pc[p] = "settled"
    /\ pc' = [pc EXCEPT ![p] = "idle"]
    /\ load' = [load EXCEPT ![p] = NoLoad]
    /\ UNCHANGED <<schemas, rawConfig, call, documents, serverArgs>>

Next ==
    \/ \E rawSchema \in SchemaHandles, id \in IdArgs : RegisterSchema(rawSchema, id)
    \/ \E value \in ValidatedValues : ValidateConfig(value)
    \/ \E driver \in ManifestEntries : GetConfigProblems(driver)
    \/ \E p \in Loads, filepath \in {Undefined} \cup {Str(f) : f \in FilePaths},
          opts \in ReadOpts : ReadConfigFile(p, filepath, opts)
    \/ \E p \in Loads, place \in {""} \cup SearchPlaces : FindConfigFile(p, place)
    \/ \E p \in Loads : Settle(p)
    \/ \E p \in Loads : Take(p)

Spec == Init /\ [][Next]_vars

(* ------------------- the pure functions on config documents ------------- *)

\* how many children the server group of a generated document has at most
MaxChildKeys == 2

\* the server entries the generated documents are built from
ServerEntries ==
    {P("port", Num(4723)), P("port", Str("notanumber")), P("callback-port", Num(70000)),
     P("log-level", Str("debug")), P("log-level", Str("loud")),
     P("log", Str("/tmp/appium.log")), P("allow-cors", Bool(TRUE)),
     P("address", Str("not a host")),
     P("default-capabilities", Str("/caps.json")),
     P("default-capabilities", Obj(<<P("platformName", Str("fake"))>>)),
     P("allow-insecure", Arr(<<Str("adb_shell"), Str("adb_shell")>>)),
     P("Log", Str("x")), P("unknown-key", Num(1)), P("Port", Num(8080))}

\* the server groups: up to MaxChildKeys entries, no key twice
ServerGroups ==
    UNION {{g \in [1..n -> ServerEntries] : \A i, j \in 1..n : i < j => g[i].key /= g[j].key} :
           n \in 0..MaxChildKeys}

\* documents of other shapes: extension groups, a top-level list, a scalar where a
\* group belongs, a top-level key the schema does not know, two groups
OtherDocs ==
    {Obj(<<P("driver", Obj(<<>>))>>),
     Obj(<<P("driver", Obj(<<P("fake", Obj(<<P("silly-web-server-port", Num(1234))>>))>>))>>),
     Obj(<<P("plugin", Obj(<<P("fake-plugin", Obj(<<>>))>>))>>),
     Obj(<<P("log-filters", Arr(<<Str("secret")>>))>>),
     Obj(<<P("log-filters", Arr(<<>>))>>),
     Obj(<<P("server", Str("nope"))>>),
     Obj(<<P("unknown-top", Obj(<<P("unknown-key", Num(1))>>))>>),
     Obj(<<P("server", Obj(<<P("port", Num(4723))>>)), P("driver", Obj(<<>>))>>)}

ConfigDocs == {Obj(<<P("server", Obj(g))>>) : g \in ServerGroups} \cup OtherDocs

\* a caller holds one config document
InitFn ==
    /\ schemas = registerSchema(<<>>, "appiumConfigSchema", Undefined).tbl
    /\ rawConfig = <<>>
    /\ pc = [p \in Loads |-> "idle"]
    /\ load = [p \in Loads |-> NoLoad]
    /\ documents = [h \in DocumentHandles |-> Deref(h)]
    /\ serverArgs = NoServerArgs
    /\ \E doc \in ConfigDocs :
          call = [op |-> "input", args |-> <<doc>>, pre |-> schemas, result |-> Returned(Undefined)]

\* validateConfig(doc)
ValidateInput ==
    /\ call.op = "input"
    /\ call' = [op |-> "validateConfig", args |-> call.args, pre |-> schemas,
                result |-> validateConfig(schemas, call.args[1])]
    /\ UNCHANGED <<schemas, rawConfig, pc, load, documents, serverArgs>>

\* normalizeConfig(doc)
NormalizeInput ==
    /\ call.op = "input"
    /\ call' = [op |-> "normalizeConfig", args |-> call.args, pre |-> schemas,
                result |-> normalizeConfig(schemas, call.args[1])]
    /\ UNCHANGED <<schemas, rawConfig, pc, load, documents, serverArgs>>

\* normalizeConfig(normalizeConfig(doc)): args are the document passed and the one
\* it was made from
NormalizeAgain ==
    /\ call.op = "normalizeConfig"
    /\ Len(call.args) = 1
    /\ call.result.outcome = "return"
    /\ call' = [op |-> "normalizeConfig", args |-> <<call.result.value, call.args[1]>>,
                pre |-> schemas, result |-> normalizeConfig(schemas, call.result.value)]
    /\ UNCHANGED <<schemas, rawConfig, pc, load, documents, serverArgs>>

NextFn ==
    \/ ValidateInput
    \/ NormalizeInput
    \/ NormalizeAgain

SpecFn == InitFn /\ [][NextFn]_vars

(* ---------------------- the projection of CLI arguments ----------------- *)

\* the aliases and prefixes aliasToFlag is called with
AliasInputs == {"g", "p", "sp", "dc", "tmp", "home", "port", "image-port"}
PrefixInputs == {Undefined, Str("driver-fake-"), Str("plugin-other-")}

\* the schema a call is about, with the prefix its caller passes for that schema:
\* the core schema's root and server group, an extension's document, a registered
\* id, an id that is not registered
Targets ==
    {Opts(Undefined, Undefined, Undefined, Arr(<<Str("driver"), Str("plugin")>>), Undefined, Undefined, Undefined),
     Opts(Undefined, Undefined, Str("server"), Undefined, Undefined, Undefined, Undefined),
     Opts(Ref("fakeDriverSchema"), Undefined, Undefined, Undefined, Undefined, Undefined,
          Str("driver-fake-")),
     Opts(Undefined, Str("fake-plugin"), Undefined, Undefined, Undefined, Undefined,
          Str("plugin-fake-plugin-")),
     Opts(Ref("otherPluginSchema"), Undefined, Undefined, Undefined, Undefined, Undefined,
          Str("plugin-other-")),
     Opts(Undefined, Str("not-registered"), Undefined, Undefined, Undefined, Undefined, Undefined)}

\* the overrides callers pass: none, those of getServerArgs, overrides under
\* property names, overrides under destination names with list and object values
OverrideSets ==
    {Undefined,
     serverOverrides,
     Obj(<<P("log-level", Obj(<<P("choices", Arr(<<Str("debug")>>))>>)),
           P("port", Obj(<<P("type", Fn("parsePort")), P("default", Num(8080))>>)),
           P("loglevel", Obj(<<P("help", Str("never used"))>>))>>),
     Obj(<<P("logFile", Obj(<<P("default", Str("/tmp/appium.log")), P("required", Bool(TRUE))>>)),
           P("sillyHost", Obj(<<P("default", Str("otherhost"))>>)),
           P("hosts", Obj(<<P("default", Arr(<<Str("example.test")>>))>>)),
           P("caps", Obj(<<P("default", Obj(<<P("rotate", Bool(TRUE))>>))>>))>>)}

ParserOpts ==
    {Opts(t.schema, t.id, t.property, t.exclude, o, a, t.prefix) :
       t \in Targets, o \in OverrideSets, a \in {Undefined, Bool(FALSE), Bool(TRUE)}}

DefaultsOpts ==
    Targets \cup
    {Opts(Undefined, Undefined, Str("server"), Arr(<<Str("allow-cors")>>), Undefined, Undefined, Undefined),
     Opts(Undefined, Undefined, Str("server"), Str("allow-cors"), Undefined, Undefined, Undefined),
     Opts(Ref("otherPluginSchema"), Undefined, Undefined, Str("port"), Undefined, Undefined, Undefined),
     Opts(Undefined, Undefined, Str("driver"), Undefined, Undefined, Undefined, Undefined),
     Opts(Undefined, Undefined, Undefined, Undefined, Undefined, Undefined, Undefined)}

\* the extensions the manifests list as installed, each with the value its entry
\* holds for the schema id
Installed ==
    {[driver |-> <<>>, plugin |-> <<>>],
     [driver |-> <<Extension("fake", Str("fake-driver"))>>,
      plugin |-> <<Extension("fake-plugin", Str("fake-plugin")), Extension("other", Str("other-plugin"))>>],
     [driver |-> <<Extension("fake", Str("driver.schema.js"))>>,
      plugin |-> <<Extension("other", Str("other-plugin"))>>],
     [driver |-> <<Extension("fake", Undefined)>>, plugin |-> <<>>]}

\* the registry once the manifests of the installed extensions were checked
InitArgs ==
    /\ schemas =
          registerSchema(
            registerSchema(
              registerSchema(
                registerSchema(<<>>, "appiumConfigSchema", Undefined).tbl,
                "fakeDriverSchema", Str("fake-driver")).tbl,
              "fakePluginSchema", Str("fake-plugin")).tbl,
            "otherPluginSchema", Str("other-plugin")).tbl
    /\ rawConfig = <<>>
    /\ pc = [p \in Loads |-> "idle"]
    /\ load = [p \in Loads |-> NoLoad]
    /\ call = NoCall
    /\ documents = [h \in DocumentHandles |-> Deref(h)]
    /\ serverArgs = NoServerArgs

\* aliasToFlag(alias, prefix)
AliasToFlag(alias, prefix) ==
    /\ call' = [op |-> "aliasToFlag", args |-> <<Str(alias), prefix>>, pre |-> schemas,
                result |-> Returned(Str(aliasToFlag(alias, prefix)))]
    /\ UNCHANGED <<schemas, rawConfig, pc, load, documents, serverArgs>>

\* toParserArgs(opts)
ToParserArgs(opts) ==
    LET done == toParserArgs(documents, schemas, opts)
    IN /\ documents' = done.docs
       /\ call' = [op |-> "toParserArgs", args |-> <<opts>>, pre |-> schemas,
                   result |-> done.result]
       /\ UNCHANGED <<schemas, rawConfig, pc, load, serverArgs>>

\* getDefaultsFromSchema(opts)
GetDefaultsFromSchema(opts) ==
    /\ call' = [op |-> "getDefaultsFromSchema", args |-> <<opts>>, pre |-> schemas,
                result |-> getDefaultsFromSchema(documents, schemas, opts)]
    /\ UNCHANGED <<schemas, rawConfig, pc, load, documents, serverArgs>>

\* getServerArgs(), with the extensions the manifests list when it first runs:
\* _.once runs the function once and returns what that run returned ever after
GetServerArgs(installed) ==
    /\ IF serverArgs.called
       THEN UNCHANGED <<serverArgs, documents>>
       ELSE LET done == getServerArgs(documents, schemas, installed)
            IN /\ serverArgs' = [called |-> TRUE, installed |-> installed, result |-> done.result]
               /\ documents' = done.docs
    /\ call' = [op |-> "getServerArgs", args |-> <<>>, pre |-> schemas,
                result |-> serverArgs'.result]
    /\ UNCHANGED <<schemas, rawConfig, pc, load>>

NextArgs ==
    \/ \E alias \in AliasInputs, prefix \in PrefixInputs : AliasToFlag(alias, prefix)
    \/ \E opts \in ParserOpts : ToParserArgs(opts)
    \/ \E opts \in DefaultsOpts : GetDefaultsFromSchema(opts)
    \/ \E installed \in Installed : GetServerArgs(installed)

SpecArgs == InitArgs /\ [][NextArgs]_vars

(* ----------------------------- concurrent loads ------------------------ *)

\* two readConfigFile calls a caller has in flight at once
ConcurrentLoads == {"load1", "load2"}

\* the paths the two calls are made with: no path, or a JSON file with or without
\* validation errors
ConcurrentPaths == {Undefined, Str(GOOD_FILEPATH), Str(BAD_FILEPATH)}

InitLoads ==
    /\ schemas = registerSchema(<<>>, "appiumConfigSchema", Undefined).tbl
    /\ rawConfig = <<>>
    /\ pc = [p \in ConcurrentLoads |-> "idle"]
    /\ load = [p \in ConcurrentLoads |-> NoLoad]
    /\ call = NoCall
    /\ documents = [h \in DocumentHandles |-> Deref(h)]
    /\ serverArgs = NoServerArgs

\* each call suspends at its await of findConfigFile; the loader of one call and
\* the resumption of the other run in either order
NextLoads ==
    \/ \E p \in ConcurrentLoads, filepath \in ConcurrentPaths, opts \in ReadOpts :
          ReadConfigFile(p, filepath, opts)
    \/ \E p \in ConcurrentLoads, place \in {""} \cup SearchPlaces : FindConfigFile(p, place)
    \/ \E p \in ConcurrentLoads : Settle(p)
    \/ \E p \in ConcurrentLoads : Take(p)

SpecLoads == InitLoads /\ [][NextLoads]_vars

(* ------------------------------- properties ---------------------------- *)

\* the id a registerSchema call is about: the id argument, or else the schema's $id
ResolvedId(rawSchema, id) == IF Nullish(id) THEN Get(Deref(rawSchema), "$id") ELSE id

\* the path a readConfigFile call loads: the one given, or the one the search found
LoadedPath(p) ==
    IF Truthy(load[p].filepath) THEN load[p].filepath
    ELSE IF load[p].found.outcome = "return" THEN load[p].found.value.filepath
    ELSE Undefined

\* findConfigFile located a config that is not empty
Located(p) ==
    /\ load[p].found.outcome = "return"
    /\ Truthy(load[p].found.value.config)
    /\ Truthy(load[p].found.value.filepath)
    /\ ~Truthy(load[p].found.value.isEmpty)

\* the schema node of key under parent, undefined when parent declares none
NodeOf(parent, key) == Get(Get(parent, "properties"), key)

\* the name the renaming rule gives key: the node's destination name, or camelCase
NameFor(node, key) ==
    IF isString(Get(node, "appiumDest")) THEN Get(node, "appiumDest").v ELSE camelCase(key)

\* the two-level renaming of a document whose keys do not collide
Renamed(doc) ==
    Obj([i \in DOMAIN doc.v |->
           P(NameFor(NodeOf(appiumConfigSchema, doc.v[i].key), doc.v[i].key),
             IF doc.v[i].val.k = "object"
             THEN Obj([j \in DOMAIN doc.v[i].val.v |->
                         P(NameFor(NodeOf(NodeOf(appiumConfigSchema, doc.v[i].key),
                                          doc.v[i].val.v[j].key),
                                   doc.v[i].val.v[j].key),
                           doc.v[i].val.v[j].val)])
             ELSE doc.v[i].val)])

\* every top-level key, and every key of a top-level object or list, is declared
\* by the core schema
KnownKeys(doc) ==
    \A i \in DOMAIN doc.v :
       /\ Has(Get(appiumConfigSchema, "properties"), doc.v[i].key)
       /\ \A j \in DOMAIN Keys(doc.v[i].val) :
             Has(Get(NodeOf(appiumConfigSchema, doc.v[i].key), "properties"),
                 Keys(doc.v[i].val)[j])

\* the constraint a server entry of the generated documents violates, as
\* <<instancePath, keyword, additional property>>
EntryViolations(entry) ==
    CASE entry = P("port", Str("notanumber")) -> {<<"/server/port", "type", "">>}
      [] entry = P("callback-port", Num(70000)) -> {<<"/server/callback-port", "maximum", "">>}
      [] entry = P("log-level", Str("loud")) -> {<<"/server/log-level", "enum", "">>}
      [] entry = P("address", Str("not a host")) -> {<<"/server/address", "format", "">>}
      [] entry = P("allow-insecure", Arr(<<Str("adb_shell"), Str("adb_shell")>>)) ->
            {<<"/server/allow-insecure", "uniqueItems", "">>}
      [] entry = P("Log", Str("x")) -> {<<"/server", "additionalProperties", "Log">>}
      [] entry = P("unknown-key", Num(1)) -> {<<"/server", "additionalProperties", "unknown-key">>}
      [] entry = P("Port", Num(8080)) -> {<<"/server", "additionalProperties", "Port">>}
      [] OTHER -> {}

\* the violations of a generated document against the core schema
Violations(doc) ==
    CASE doc = Obj(<<P("server", Str("nope"))>>) -> {<<"/server", "type", "">>}
      [] doc = Obj(<<P("unknown-top", Obj(<<P("unknown-key", Num(1))>>))>>) ->
            {<<"", "additionalProperties", "unknown-top">>}
      [] doc \in OtherDocs -> {}
      [] OTHER -> UNION {EntryViolations(Get(doc, "server").v[i]) : i \in DOMAIN Get(doc, "server").v}

\* what an error object reports, in the form of Violations
Reported(e) ==
    <<e.instancePath, e.keyword,
      IF e.keyword = "additionalProperties" THEN Get(e.params, "additionalProperty").v ELSE "">>

\* C1: whenever readConfigFile has settled, resolved or rejected, the raw-text cache
\* holds no entry for the path that call loaded
C1_CacheEvictedOnEveryExit ==
    \A p \in Loads :
       (pc[p] = "settled" /\ isString(LoadedPath(p))) => LoadedPath(p).v \notin DOMAIN rawConfig

\* C2: registerSchema called for a schema object with an id that is already
\* registered, whatever the schema's content, returns that id and leaves the table
\* as it was, so the document first registered under the id stays
C2_RegisterIdempotent ==
    (/\ call.op = "registerSchema"
     /\ isObject(Deref(call.args[1]))
     /\ isString(ResolvedId(call.args[1], call.args[2]))
     /\ ResolvedId(call.args[1], call.args[2]).v \in DOMAIN call.pre)
    => /\ call.result = Returned(ResolvedId(call.args[1], call.args[2]))
       /\ schemas = call.pre

\* C2 witness: a second schema was registered under an id another document holds
C2_Witness ==
    /\ call.op = "registerSchema"
    /\ call.args = <<"fakePluginSchema", Str("fake-driver")>>
    /\ "fake-driver" \in DOMAIN call.pre
    /\ call.pre["fake-driver"] = "fakeDriverSchema"
    /\ call.result = Returned(Str("fake-driver"))

\* C3: registerSchema throws and leaves the table as it was when the schema
\* argument is no object, or when neither its $id nor the id argument gives an id
C3_RegisterRejects ==
    (/\ call.op = "registerSchema"
     /\ \/ ~isObject(Deref(call.args[1]))
        \/ (~Truthy(Get(Deref(call.args[1]), "$id")) /\ ~Truthy(call.args[2])))
    => /\ call.result.outcome = "throw"
       /\ schemas = call.pre

\* C3 witness: a schema object without $id was registered without an id argument
C3_Witness ==
    /\ call.op = "registerSchema"
    /\ call.args = <<"fakeDriverSchema", Undefined>>
    /\ call.result.outcome = "throw"

\* C5: the core schema is registered in every state, and an id that refers to a
\* document refers to that document after every step
C5_RegistryOnlyGrows ==
    /\ [](/\ APPIUM_CONFIG_SCHEMA_ID \in DOMAIN schemas
          /\ schemas[APPIUM_CONFIG_SCHEMA_ID] = "appiumConfigSchema")
    /\ [][\A id \in DOMAIN schemas : id \in DOMAIN schemas' /\ schemas'[id] = schemas[id]]_vars

\* C5 witness: extensions have registered schemas, a config load has settled and a
\* validation was run afterwards
C5_Witness ==
    /\ Cardinality(DOMAIN schemas) >= 3
    /\ \E p \in Loads : pc[p] = "settled" /\ load[p].settled.outcome = "return"
    /\ call.op = "validateConfig"

\* C6: validateConfig returns one error for each constraint the value violates and
\* no other: none for a conforming value, a union-typed property of either member
\* type included, and for {"server": {"port": "notanumber"}} the single error of
\* keyword type at /server/port
C6_ValidateReportsAllViolations ==
    call.op = "validateConfig" =>
       /\ call.result.outcome = "return"
       /\ {Reported(call.result.value[i]) : i \in DOMAIN call.result.value}
             = Violations(call.args[1])
       /\ Len(call.result.value) = Cardinality(Violations(call.args[1]))
       /\ call.args[1] = Obj(<<P("server", Obj(<<P("port", Str("notanumber"))>>))>>) =>
             /\ Len(call.result.value) = 1
             /\ call.result.value[1].instancePath = "/server/port"
             /\ call.result.value[1].keyword = "type"

\* C6 witness: a value that violates two constraints was validated
C6_Witness ==
    /\ call.op = "validateConfig"
    /\ Cardinality(Violations(call.args[1])) = 2
    /\ Len(call.result.value) = 2

\* C7: readConfigFile, for every config located and not empty, resolves with the
\* list of validation errors and, under the default options, the renamed config
C7_LoadAlwaysResolves ==
    \A p \in Loads :
       (pc[p] = "settled" /\ Located(p)) =>
          /\ load[p].settled.outcome = "return"
          /\ load[p].settled.value.errors
                = validateConfig(schemas, load[p].found.value.config).value
          /\ load[p].opts.normalize =>
                load[p].settled.value.config = Renamed(load[p].found.value.config)

\* C8: a rejected load of an explicit path carries, for a missing file, the
\* not-found message with the path; for a failure of the parser, the invalid-file
\* message with the path and then the parser's message; for any other error, the
\* error's own message
C8_ExplicitPathErrorsRewritten ==
    \A p \in Loads :
       (/\ pc[p] \in {"found", "settled"}
        /\ Truthy(load[p].filepath)
        /\ load[p].found.outcome = "throw")
       => CASE LilconfigLoad(<<>>, load[p].filepath.v).result.value.code = "ENOENT" ->
                 load[p].found.value.message
                    = <<"Config file not found at user-provided path: ", load[p].filepath.v>>
            [] LilconfigLoad(<<>>, load[p].filepath.v).result.value.name
                  \in {"SyntaxError", "YAMLParseError"} ->
                 load[p].found.value.message
                    = <<"Config file at user-provided path ", load[p].filepath.v, " is invalid:\n">>
                      \o LilconfigLoad(<<>>, load[p].filepath.v).result.value.message
            [] OTHER ->
                 load[p].found.value.message
                    = LilconfigLoad(<<>>, load[p].filepath.v).result.value.message

\* C9: normalizeConfig returns the document with every top-level key and every
\* child key of a top-level object renamed to its schema node's destination name,
\* or to the camelCase of the key when there is none
C9_NormalizeRenamesTwoLevels ==
    (call.op = "normalizeConfig" /\ Len(call.args) = 1) =>
       call.result = Returned(Renamed(call.args[1]))

\* C10 as stated: normalizing the result of normalizeConfig again gives that result
C10_NormalizeIdempotent ==
    (call.op = "normalizeConfig" /\ Len(call.args) = 2) =>
       call.result = Returned(call.args[1])

\* C10 amended: for a document whose top-level keys and second-level keys are all
\* declared by the schema, normalizeConfig returns, and normalizing its result
\* again gives that result
C10_NormalizeIdempotentOnKnownKeys ==
    /\ (call.op = "normalizeConfig" /\ Len(call.args) = 1 /\ KnownKeys(call.args[1]))
          => call.result.outcome = "return"
    /\ (call.op = "normalizeConfig" /\ Len(call.args) = 2 /\ KnownKeys(call.args[2]))
          => call.result = Returned(call.args[1])

\* C10 witness: a document of known keys with a renamed destination was
\* normalized twice
C10_Witness ==
    /\ call.op = "normalizeConfig"
    /\ Len(call.args) = 2
    /\ KnownKeys(call.args[2])
    /\ Has(Get(call.args[2], "server"), "log")
    /\ Has(Get(call.result.value, "server"), "logFile")

\* C11: normalizeConfig returns a document with as many entries as its input at the
\* top level and in every config group, and each input entry's value is found under
\* the name its key is renamed to, also when two keys are renamed to the same name
C11_NormalizeKeepsEveryEntry ==
    (call.op = "normalizeConfig" /\ Len(call.args) = 1) =>
       /\ call.result.outcome = "return"
       /\ Len(call.result.value.v) = Len(call.args[1].v)
       /\ \A i \in DOMAIN call.args[1].v :
             LET entry == call.args[1].v[i]
                 node == NodeOf(appiumConfigSchema, entry.key)
                 out == Get(call.result.value, NameFor(node, entry.key))
             IN IF entry.val.k = "object"
                THEN /\ out.k = "object"
                     /\ Len(out.v) = Len(entry.val.v)
                     /\ \A j \in DOMAIN entry.val.v :
                           Get(out, NameFor(NodeOf(node, entry.val.v[j].key), entry.val.v[j].key))
                              = entry.val.v[j].val
                ELSE out = entry.val

\* a toParserArgs call that returned its list of argument definitions
Projecting == call.op = "toParserArgs" /\ call.result.outcome = "return"

\* the schema properties the toParserArgs call went through, in their order
NodesOf(opts) == filterSchemaProperties(documents, schemas, opts).value.properties.v

\* the flags and the argument options of the i-th definition of the call's result
FlagsOf(i) == call.result.value.v[i].v[1].v
ArgOpts(i) == call.result.value.v[i].v[2]

\* the aliases a schema node declares
DeclaredAliases(node) == Vals(Get(node, "appiumAliases"))

\* the override the caller gave for a property: the one under its name, or else
\* the one under its destination name, or none
OverrideOf(overrides, name, node) ==
    IF Has(overrides, name) THEN Get(overrides, name)
    ELSE IF Has(overrides, NameFor(node, name)) THEN Get(overrides, NameFor(node, name))
    ELSE Obj(<<>>)

C13_ExtensionFlagIsPrefixedName ==
    (Projecting /\ isString(call.args[1].prefix)) =>
       \A i \in DOMAIN NodesOf(call.args[1]) :
          /\ FlagsOf(i)[1] = Str("--" \o call.args[1].prefix.v \o NodesOf(call.args[1])[i].key)
          /\ Len(FlagsOf(i)) = 1 + Len(DeclaredAliases(NodesOf(call.args[1])[i].val))


\* how many arguments an installed extension contributes: one for each property
\* of its schema, none when the id its manifest entry holds is not registered
ExtensionCount(ext) ==
    IF isString(ext.schemaId) /\ ext.schemaId.v \in DOMAIN schemas
    THEN Len(Get(documents[schemas[ext.schemaId.v]], "properties").v)
    ELSE 0

\* the namespace of each argument of the server catalog, in the catalog's order:
\* the core's arguments, then each driver's, then each plugin's
Namespaces(installed) ==
    [i \in 1..(Len(Get(NodeOf(documents["appiumConfigSchema"], "server"), "properties").v)
                + Len(serverArgsDisallowedInConfig)) |-> "core"]
    \o Flatten([i \in DOMAIN installed.driver |->
                  [j \in 1..ExtensionCount(installed.driver[i]) |-> "driver " \o installed.driver[i].name]])
    \o Flatten([i \in DOMAIN installed.plugin |->
                  [j \in 1..ExtensionCount(installed.plugin[i]) |-> "plugin " \o installed.plugin[i].name]])

\* C14: in the catalog getServerArgs returns, two arguments of different
\* namespaces (the core, an extension, another extension) share no flag and have
\* different destinations
C14_NamespacesNeverCollide ==
    serverArgs.called =>
       \A i, j \in DOMAIN serverArgs.result.value.v :
          Namespaces(serverArgs.installed)[i] /= Namespaces(serverArgs.installed)[j] =>
             /\ \A m \in DOMAIN serverArgs.result.value.v[i].v[1].v :
                   \A n \in DOMAIN serverArgs.result.value.v[j].v[1].v :
                      serverArgs.result.value.v[i].v[1].v[m] /= serverArgs.result.value.v[j].v[1].v[n]
             /\ Get(serverArgs.result.value.v[i].v[2], "dest")
                   /= Get(serverArgs.result.value.v[j].v[2], "dest")

\* the default the projection table gives a node of a single type: the default it
\* declares, or else false for boolean, [] for array, {} for object, null otherwise
TableDefault(node) ==
    IF Has(node, "default") THEN Get(node, "default")
    ELSE CASE Get(node, "type") = Str("boolean") -> Bool(FALSE)
           [] Get(node, "type") = Str("array") -> Arr(<<>>)
           [] Get(node, "type") = Str("object") -> Obj(<<>>)
           [] OTHER -> Null

\* C15: with assignDefaults set and no overrides, each property of a single type
\* is projected with the default of the table, a boolean with the action
\* store_true and an integer with the type int
C15_SingleTypeDefaults ==
    (Projecting /\ call.args[1].assignDefaults = Bool(TRUE) /\ isUndefined(call.args[1].overrides)) =>
       \A i \in DOMAIN NodesOf(call.args[1]) :
          LET node == NodesOf(call.args[1])[i].val
          IN isString(Get(node, "type")) =>
                /\ Has(ArgOpts(i), "default")
                /\ Get(ArgOpts(i), "default") = TableDefault(node)
                /\ Get(node, "type") = Str("boolean") <=> Get(ArgOpts(i), "action") = Str("store_true")
                /\ Get(node, "type") = Str("integer") <=> Get(ArgOpts(i), "type") = Str("int")

\* C15 witness: the second plugin's schema, which has properties of every single
\* type with and without a declared default, was projected with assignDefaults
C15_Witness ==
    /\ Projecting
    /\ call.args[1].assignDefaults = Bool(TRUE)
    /\ isUndefined(call.args[1].overrides)
    /\ call.args[1].schema = Ref("otherPluginSchema")
    /\ \E i \in DOMAIN call.result.value.v :
          /\ Get(ArgOpts(i), "dest") = Str("hosts")
          /\ Get(ArgOpts(i), "default") = Arr(<<Str("localhost"), Str("fallback")>>)
    /\ \E i \in DOMAIN call.result.value.v :
          /\ Get(ArgOpts(i), "dest") = Str("verbose")
          /\ Get(ArgOpts(i), "default") = Bool(FALSE)

\* C16: with assignDefaults set and no overrides, each property whose type is a
\* union is projected with the default [] when array is one of its types and with
\* null otherwise, whatever default it declares
C16_UnionTypeDefaults ==
    (Projecting /\ call.args[1].assignDefaults = Bool(TRUE) /\ isUndefined(call.args[1].overrides)) =>
       \A i \in DOMAIN NodesOf(call.args[1]) :
          LET node == NodesOf(call.args[1])[i].val
          IN isArray(Get(node, "type")) =>
                Get(ArgOpts(i), "default") =
                   (IF \E t \in DOMAIN Get(node, "type").v : Get(node, "type").v[t] = Str("array")
                    THEN Arr(<<>>) ELSE Null)

\* C17: without assignDefaults, a projected argument has a default only when the
\* override given for its property has one
C17_NoDefaultsUnlessAssigned ==
    (Projecting /\ call.args[1].assignDefaults \in {Undefined, Bool(FALSE)}) =>
       \A i \in DOMAIN NodesOf(call.args[1]) :
          Has(ArgOpts(i), "default") <=>
             Has(OverrideOf(call.args[1].overrides, NodesOf(call.args[1])[i].key,
                            NodesOf(call.args[1])[i].val), "default")

\* C17 witness: the server group, whose port declares the default 4723, was
\* projected with no assignDefaults option and no overrides
C17_Witness ==
    /\ Projecting
    /\ isUndefined(call.args[1].assignDefaults)
    /\ isUndefined(call.args[1].overrides)
    /\ call.args[1].property = Str("server")
    /\ \E i \in DOMAIN call.result.value.v :
          /\ Get(ArgOpts(i), "dest") = Str("port")
          /\ Get(NodesOf(call.args[1])[i].val, "default") = Num(4723)
          /\ ~Has(ArgOpts(i), "default")

\* C18: each field of the override given for a property has the override's value in
\* the projected argument, and each other field has its schema-derived value
C18_OverrideFieldsWin ==
    Projecting =>
       \A i \in DOMAIN NodesOf(call.args[1]) :
          LET over == OverrideOf(call.args[1].overrides, NodesOf(call.args[1])[i].key,
                                 NodesOf(call.args[1])[i].val)
              derived == Obj(ArgOptsOf(NodesOf(call.args[1])[i].key, NodesOf(call.args[1])[i].val,
                                       IF isUndefined(call.args[1].assignDefaults) THEN Bool(FALSE)
                                       ELSE call.args[1].assignDefaults))
          IN /\ \A f \in DOMAIN over.v : Get(ArgOpts(i), over.v[f].key) = over.v[f].val
             /\ \A f \in DOMAIN derived.v :
                   ~Has(over, derived.v[f].key) =>
                      Get(ArgOpts(i), derived.v[f].key) = derived.v[f].val
             /\ \A f \in DOMAIN ArgOpts(i).v :
                   Has(over, ArgOpts(i).v[f].key) \/ Has(derived, ArgOpts(i).v[f].key)

\* C19: every schema document is as its module defined it: no projection changed
\* a node or a declared default
C19_ProjectionLeavesSchemas ==
    \A h \in DocumentHandles : documents[h] = Deref(h)

\* the properties the core schema declares for the server group
ServerProperties == Get(NodeOf(appiumConfigSchema, "server"), "properties").v

ExcludedNames(opts) ==
    IF Nullish(opts.exclude) THEN {}
    ELSE IF isString(opts.exclude) THEN {opts.exclude.v}
    ELSE {opts.exclude.v[i].v : i \in DOMAIN opts.exclude.v}

\* C21: the defaults of a property group asked for with an exclude list have no
\* key for an excluded property, and are otherwise the defaults of the group asked
\* for without the exclude list; with property 'server' and exclude 'allow-cors'
\* the result has no allowCors key
C21_ExcludeWithinGroup ==
    (call.op = "getDefaultsFromSchema" /\ Truthy(call.args[1].property)
       /\ ~Nullish(call.args[1].exclude) /\ call.result.outcome = "return") =>
       LET opts == call.args[1]
           whole == getDefaultsFromSchema(documents, schemas,
                                          [opts EXCEPT !.exclude = Undefined]).value
       IN /\ \A name \in ExcludedNames(opts) : ~Has(call.result.value, camelCase(name))
          /\ call.result.value =
                Obj(SelectSeq(whole.v,
                              LAMBDA p : \A name \in ExcludedNames(opts) : p.key # camelCase(name)))

\* C22: getConfigProblems returns a list of problems for every manifest entry,
\* whichever of its fields are missing or of another type; it never throws
C22_ManifestCheckNeverThrows ==
    call.op = "getConfigProblems" => call.result.outcome = "return"

\* a manifest entry with the one field of driver, and the others as a well-formed
\* entry without a schema has them
OnlyPlatformNames(driver) ==
    Driver(driver.platformNames, Str("fake"), Undefined, driver.installSpec, driver.pkgName)
OnlyAutomationName(driver) ==
    Driver(Arr(<<Str("Android")>>), driver.automationName, Undefined, driver.installSpec,
           driver.pkgName)
OnlySchema(driver) ==
    Driver(Arr(<<Str("Android")>>), Str("fake"), driver.schema, driver.installSpec, driver.pkgName)

\* the problems getConfigProblems returns for entry with the registry the call found
ProblemsOf(entry) == getConfigProblems(call.pre, entry).result.value

\* the problems of a list with the message err
WithErr(problems, err) == SelectSeq(problems, LAMBDA pr : pr.err = err)

Duplicate(automationName) ==
    Problem(<<"Multiple drivers claim support for the same automationName">>, automationName)

\* C24: of two entries checked one after the other that declare one
\* automationName, the second gets the problem 'Multiple drivers claim support
\* for the same automationName' with the name as val
C24_DuplicateAutomationName ==
    [][(/\ call.op = "getConfigProblems" /\ call.result.outcome = "return"
        /\ call'.op = "getConfigProblems" /\ call'.result.outcome = "return"
        /\ isString(call.args[1].automationName)
        /\ call'.args[1].automationName = call.args[1].automationName)
       => \E i \in DOMAIN call'.result.value :
             call'.result.value[i] = Duplicate(call.args[1].automationName)]_vars

\* the problems of a list that are about the schema field
SchemaProblems(problems) ==
    SelectSeq(problems,
              LAMBDA pr : pr.err[1] \in {"Incorrectly formatted schema field.",
                                         "Schema file has unsupported extension. Allowed: ",
                                         "Unable to register schema at "})

\* C25: for a schema reference that is no string, or a string whose extension is
\* none of .json, .js and .cjs, the call returns with one problem about the field,
\* which names the reference, and the registry is as the call found it
C25_SchemaReferenceScreened ==
    (/\ call.op = "getConfigProblems"
     /\ ~isUndefined(call.args[1].schema)
     /\ \/ ~isString(call.args[1].schema)
        \/ PathExtName(call.args[1].schema.v) \notin {".json", ".js", ".cjs"}) =>
       /\ call.result.outcome = "return"
       /\ schemas = call.pre
       /\ SchemaProblems(call.result.value) =
             <<Problem(IF isString(call.args[1].schema)
                       THEN <<"Schema file has unsupported extension. Allowed: ", ".json, .js, .cjs">>
                       ELSE <<"Incorrectly formatted schema field.">>,
                       call.args[1].schema)>>

\* C25 witness: an entry that refers to selenium.java got the problem of an
\* unsupported extension
C25_Witness ==
    /\ call.op = "getConfigProblems"
    /\ call.args[1].schema = Str("selenium.java")
    /\ call.result.outcome = "return"
    /\ Len(SchemaProblems(call.result.value)) = 1
    /\ schemas = call.pre

\* the entry of the call refers to a schema file with an allowed extension
AllowedReference ==
    /\ call.op = "getConfigProblems"
    /\ isString(call.args[1].schema)
    /\ PathExtName(call.args[1].schema.v) \in {".json", ".js", ".cjs"}

\* C26: for an entry whose schema reference has an allowed extension the call
\* returns, and either it reports no problem about the schema and the registry
\* holds, under the entry's pkgName, the schema loaded from the file resolved
\* against installSpec, or it reports the one problem 'Unable to register schema at
\* <resolved path>' and the registry is as the call found it
C26_SchemaRegisteredOrReported ==
    AllowedReference =>
       /\ call.result.outcome = "return"
       /\ LET driver == call.args[1]
              schemaPath == PathResolve(driver.installSpec.v, driver.schema.v)
              reported == SchemaProblems(call.result.value)
          IN \/ /\ reported = <<>>
                /\ Require(schemaPath).outcome = "return"
                /\ isString(driver.pkgName)
                /\ getSchema(schemas, driver.pkgName.v) = Deref(Require(schemaPath).value)
             \/ /\ reported = <<Problem(<<"Unable to register schema at ", schemaPath>>,
                                        driver.schema)>>
                /\ schemas = call.pre

\* readConfigFile of slot p resolved with errors of the validation
SettledWithErrors(p) ==
    /\ pc[p] = "settled"
    /\ load[p].settled.outcome = "return"
    /\ "errors" \in DOMAIN load[p].settled.value
    /\ Len(load[p].settled.value.errors) > 0

\* C27: the errors of a config file, which all originate from the core schema it
\* was validated against, are rendered as one block, against the core schema
\* document: the blocks are as many as the schemas the errors originate from, every
\* block is rendered against the schema of its errors, and every error is in a block
C27_ErrorsRenderedPerSchema ==
    \A p \in Loads :
       SettledWithErrors(p) =>
          LET blocks == load[p].settled.value.reason
          IN /\ Len(blocks) = 1
             /\ \A g \in DOMAIN blocks : blocks[g].schema = appiumConfigSchema
             /\ Flatten([g \in DOMAIN blocks |-> blocks[g].errors]) = load[p].settled.value.errors

\* findConfigFile of slot p has resolved or rejected
Found(p) == pc[p] \in {"found", "settled"}

\* C28: a load with an explicit path has the outcome of loading that file, wherever
\* a search would have come upon a file; a load without one has the outcome of a
\* search, which is a file of the conventional places or none; and a load whose
\* search came upon no file resolves with the empty result, without config and
\* without errors
C28_SearchOrLoad ==
    \A p \in Loads :
       Found(p) =>
          /\ Truthy(load[p].filepath) =>
                /\ load[p].found = loadConfigFile(<<>>, load[p].filepath.v).result
                /\ load[p].found.outcome = "return" =>
                      load[p].found.value.filepath = load[p].filepath
          /\ ~Truthy(load[p].filepath) =>
                /\ \E place \in {""} \cup SearchPlaces :
                      load[p].found = IF place = "" THEN Returned(NoResult)
                                      ELSE LilconfigLoad(<<>>, place).result
                /\ load[p].found.outcome = "return" =>
                      \/ load[p].found.value = NoResult
                      \/ load[p].found.value.filepath \in {Str(f) : f \in SearchPlaces}
                /\ (pc[p] = "settled" /\ load[p].found = Returned(NoResult)) =>
                      load[p].settled = Returned(NoResult)

\* C28 witness: a load without a path whose search came upon no file has resolved
\* with the empty result
C28_Witness ==
    \E p \in Loads :
       /\ pc[p] = "settled"
       /\ ~Truthy(load[p].filepath)
       /\ load[p].found = Returned(NoResult)
       /\ load[p].settled = Returned(NoResult)

\* the top-level keys whose values are config groups
ConfigGroups == {"server", "driver", "plugin"}

\* C29: in the document normalizeConfig returns, the value of a top-level key that
\* is no config group is the value the key had, whether a scalar, a list or an
\* object, and the children of a config group have the values they had: only keys
\* differ
C29_NormalizeChangesKeysOnly ==
    (call.op = "normalizeConfig" /\ Len(call.args) = 1 /\ call.result.outcome = "return") =>
       \A i \in DOMAIN call.args[1].v :
          LET entry == call.args[1].v[i]
              out == Get(call.result.value, TopDest(appiumConfigSchema, entry.key))
          IN IF entry.key \in ConfigGroups /\ entry.val.k = "object"
             THEN /\ out.k = "object"
                  /\ \A j \in DOMAIN out.v : \E c \in DOMAIN entry.val.v : out.v[j].val = entry.val.v[c].val
             ELSE out = entry.val

====
